---- MODULE Spec2Model ----
(***************************************************************************)
(* State-machine model of the Stratz scraper: the player table with its    *)
(* leases (claim, submit, seed, reapers, schema initialisation), the       *)
(* aggregate tables (hero_stats, best) and the client worker loop.         *)
(***************************************************************************)
EXTENDS Integers, Sequences, FiniteSets, TLC

(***************************************************************************)
(* Bounds of the model.                                                    *)
(***************************************************************************)
MaxPlayerId == 1
MaxTime == 15
TickMinutes == 5
MaxGames == 2
MaxSubmits == 2
MaxRequests == 1
MaxCompleted == 2
MaxSeen == 3
MaxAttempts == 3
MaxPoolSize == 3
MaxTasks == 3
MaxPolls == 1
MaxConns == 2
MaxCalls == 2
MaxInitCalls == 4

(***************************************************************************)
(* Program constants.                                                      *)
(***************************************************************************)
INITIAL_PLAYER_ID == 293053907
MaxAgeMinutes == 10

\* SQL NULL of a numeric or timestamp column
NULL == -1
\* SQL NULL of a text column
NULLTEXT == "NULL"
\* a key with no row in its table
NoRow == [absent |-> TRUE]
\* the JSON null returned by /task when no row is updated
NoTaskId == 0

\* ids of the static hero table
HEROES == (1..23) \cup (25..114) \cup {119, 120, 121, 123, 126, 128, 129, 131, 135, 136, 137, 138, 145}

\* the smallest positive id the static hero table does not name
UnknownHeroId ==
    CHOOSE h \in 1..145 : h \notin HEROES /\ \A k \in 1..(h - 1) : k \in HEROES

PlayerIds == (1..MaxPlayerId) \cup {INITIAL_PLAYER_ID}
SeedIds == 1..MaxPlayerId
HeroInputs == {1, UnknownHeroId}
KnownHeroInputs == HeroInputs \cap HEROES
WinsInputs == {0, 1}

VARIABLES
    players,      \* table players: id -> row or NoRow
    hero_stats,   \* table hero_stats: <<player_id, hero_id>> -> row or NoRow
    best,         \* table best: hero_id -> row or NoRow
    now,          \* wall clock, minutes
    legacy_db,    \* rows of the legacy SQLite file dota.db, or NoRow when there is no file
    grants,       \* history: id -> number of /task answers naming id whose lease is outstanding
    history,      \* history: every hero tuple submitted, in order
    last          \* history: the last operation and the id it returned or addressed

storeVars == <<players, hero_stats, best, now, legacy_db, grants, history, last>>

VARIABLES
    w_pc,                \* worker_entry: where the loop stands
    w_task,              \* worker_entry: task, the task held, or NoTask
    stop_event,          \* the stop signal of the worker process
    backoff_ms,          \* worker_entry: backoff_ms
    requests_remaining,  \* worker_entry: requests_remaining, NULL when there is no limit
    completed_tasks,     \* worker_entry: completed_tasks
    wait_ms,             \* duration of the _wait in progress
    after_wait,          \* which branch of the loop the _wait in progress belongs to
    unreturned,          \* history: the task obtained and neither submitted nor reset, or NoTask
    max_requests,        \* config.max_requests, NULL when there is no limit
    w_last,              \* history: the failure or completion the current pass of the loop handled
    wait_elapsed,        \* _wait: milliseconds of the wait in progress that have passed
    sleep_ms,            \* _wait: duration of the time.sleep in progress, 0 outside of it
    polls,               \* _wait: time.sleep calls of the wait in progress that have returned
    run_backoff,         \* history: backoff_ms after the latest failure without a retry hint,
                         \* NULL once a task was completed, no task was answered or a
                         \* rate limit came with a hint
    run_invalid          \* history: an invalid task was discarded since that failure

\* the variables of the _wait in progress
waitVars == <<wait_elapsed, sleep_ms, polls>>

\* the history of the current run of failures
runVars == <<run_backoff, run_invalid>>

workerVars == <<w_pc, w_task, stop_event, backoff_ms, requests_remaining, completed_tasks,
                wait_ms, after_wait, unreturned, max_requests, w_last, waitVars,
                runVars>>

VARIABLES
    observed,     \* history: id -> sum of the observation counts of the discoveries naming id
    born          \* history: id -> parent depth + 1 of the discovery that inserted id, or NULL

schedVars == <<observed, born>>

VARIABLES
    r_pc,         \* retryable_execute / retryable_executemany: where the call stands
    r_fn,         \* which of the two functions runs
    r_interval,   \* retry_interval, milliseconds
    r_params,     \* seq_of_parameters as the statement receives it: a list, or a consumed iterator
    r_outcomes,   \* history: the outcome of every attempt of the call, in order
    r_slept,      \* history: the time.sleep calls of the call, in order
    r_raised      \* the error the call raised, or "none"

retryVars == <<r_pc, r_fn, r_interval, r_params, r_outcomes, r_slept, r_raised>>

VARIABLES
    max_size,      \* TaskPool._max_size, 0 before a pool is constructed
    pool_queue,    \* TaskPool._queue, oldest task first
    refill_event,  \* TaskPool._refill_event
    pool_stop_event, \* TaskPool._stop_event
    fill_pc,       \* the line of _fill_loop the refill thread stands at
    fill_task,     \* the local task of _fill_loop
    stop_pc,       \* where the one stop() call stands
    get_pc,        \* per caller: the line of get() it stands at
    get_task,      \* per caller: the local task of get()
    get_src,       \* history, per caller: where the task of this get() came from
    get_head,      \* history, per caller: the head of the buffer when get_nowait ran
    get_calls,     \* history, per caller: assign_next_task calls of this get()
    issued,        \* the number of tasks assign_next_task has handed out
    delivered,     \* history: how many get() calls returned each task
    low_since_full \* history: since the refill loop last found the buffer full and went
                   \* back to its wait, a get() left the buffer at or below the refill
                   \* threshold or found it empty

poolVars == <<max_size, pool_queue, refill_event, pool_stop_event, fill_pc, fill_task, stop_pc,
              get_pc, get_task, get_src, get_head, get_calls, issued, delivered,
              low_since_full>>

VARIABLES
    db_state,      \* per connection: "unused", "open", "broken" (the server end is gone) or "closed"
    db_origin,     \* history, per connection: the thread, mode and call that created it
    db_pending,    \* per connection: the changes of its open transaction
    db_committed,  \* the changes committed to the store
    db_cache,      \* per thread: _THREAD_LOCAL.connections.get("write"), 0 for none
    db_pc,         \* per thread: where its db_connection call stands
    db_write,      \* per thread: the write argument of its call
    db_conn,       \* per thread: the local connection of its call, 0 for None
    db_call,       \* per thread: the number of its call, 0 before the first
    db_calls,      \* the number of db_connection calls made
    db_wrote,      \* history, per call: the changes its block made
    db_done,       \* history, per call: "none", "running", "returned" or "raised"
    db_failed      \* history: the connections that failed a health check

connVars == <<db_state, db_origin, db_pending, db_committed, db_cache, db_pc, db_write,
              db_conn, db_call, db_calls, db_wrote, db_done, db_failed>>

VARIABLES
    schema_initialized,  \* _SCHEMA_INITIALIZED
    init_pc,             \* per thread: where its ensure_schema_exists call stands
    init_calls,          \* the number of ensure_schema_exists calls made
    init_started,        \* history: how many calls went past the test of the flag
    init_completed,      \* history: how many calls ran the initialisation to its commit
    init_failed          \* history: how many calls left the initialisation by an exception

schemaVars == <<schema_initialized, init_pc, init_calls, init_started, init_completed,
                init_failed>>

VARIABLES
    pf_queue,   \* TaskPool._queue as the store sees it: the claimed tasks waiting, oldest first
    pf_held     \* per caller: the task TaskPool.get handed to it and it has not submitted

prefetchVars == <<pf_queue, pf_held>>

\* the variables neither the store operations nor the worker loop touch
sideVars == <<schedVars, retryVars, poolVars, connVars, schemaVars, prefetchVars>>

(***************************************************************************)
(* The player table.                                                       *)
(***************************************************************************)
NewPlayerRow(depth) ==
    [depth |-> depth, assigned_to |-> NULLTEXT, assigned_at |-> NULL,
     hero_refreshed_at |-> NULL, hero_done |-> FALSE, discover_done |-> FALSE,
     seen_count |-> 0]

InsertOrReplace(p, id) ==
    [p EXCEPT ![id] = NewPlayerRow(NULL)]

\* INSERT OR IGNORE INTO players (id) VALUES (?): every other column takes its default
InsertOrIgnore(p, id) ==
    IF p[id] = NoRow THEN [p EXCEPT ![id] = NewPlayerRow(NULL)] ELSE p

RECURSIVE SeedRange(_, _, _)
\* for pid in range(start, end + 1): INSERT OR IGNORE
SeedRange(p, pid, end) ==
    IF pid > end THEN p ELSE SeedRange(InsertOrIgnore(p, pid), pid + 1, end)

FetchEligibleIgnoringLease(p, id) ==
    /\ p[id] # NoRow
    /\ p[id].hero_done = FALSE

\* WHERE done=0 AND assigned_to IS NULL
FetchEligible(p, id) ==
    /\ p[id] # NoRow
    /\ p[id].hero_done = FALSE
    /\ p[id].assigned_to = NULLTEXT

\* COALESCE(depth, 0) of the queue indexes
DepthKey(row) ==
    IF row.depth = NULL THEN 0 ELSE row.depth

\* (depth ASC, id ASC): row a of id ida comes no later than row b of id idb
FetchOrderLeq(a, ida, b, idb) ==
    \/ DepthKey(a) < DepthKey(b)
    \/ (DepthKey(a) = DepthKey(b) /\ ida <= idb)

AssignRowHolderOnly(row, t) ==
    [row EXCEPT !.assigned_to = "browser"]

\* SET assigned_to='browser', assigned_at=strftime('%s','now')
AssignRow(row, t) ==
    [row EXCEPT !.assigned_to = "browser", !.assigned_at = t]

MarkDoneToggle(p, pid) ==
    IF p[pid] = NoRow THEN p ELSE [p EXCEPT ![pid].hero_done = ~@]

\* UPDATE players SET done=1 WHERE id=?
MarkDone(p, pid) ==
    IF p[pid] = NoRow THEN p ELSE [p EXCEPT ![pid].hero_done = TRUE]

ClearLeaseStampOnly(row) ==
    [row EXCEPT !.assigned_at = NULL]

\* SET assigned_to=NULL, assigned_at=NULL
ClearLease(row) ==
    [row EXCEPT !.assigned_to = NULLTEXT, !.assigned_at = NULL]

\* WHERE assigned_to IS NOT NULL AND (assigned_at IS NULL OR assigned_at <= NOW() - interval)
StaleLease(row, t, max_age_minutes) ==
    /\ row.assigned_to # NULLTEXT
    /\ \/ row.assigned_at = NULL
       \/ row.assigned_at <= t - max_age_minutes

\* WHERE assigned_to IS NOT NULL
AnyLease(row) ==
    row.assigned_to # NULLTEXT

\* the ids whose lease an UPDATE of the reaper clears
ReapedIds(p, t, max_age_minutes) ==
    {id \in PlayerIds : p[id] # NoRow /\ StaleLease(p[id], t, max_age_minutes)}

LegacyReapedIds(p) ==
    {id \in PlayerIds : p[id] # NoRow /\ AnyLease(p[id])}

ClearLeases(p, ids) ==
    [id \in PlayerIds |-> IF id \in ids THEN ClearLease(p[id]) ELSE p[id]]

ZeroGrants(g, ids) ==
    [id \in PlayerIds |-> IF id \in ids THEN 0 ELSE g[id]]

(***************************************************************************)
(* The aggregate tables.                                                   *)
(***************************************************************************)
\* the hero entries of a request: any known one, and one whose hero id HEROES does not name
HeroTuples ==
    [hero_id : KnownHeroInputs, games : 1..MaxGames, wins : WinsInputs]
        \cup {[hero_id |-> UnknownHeroId, games |-> 1, wins |-> 0]}

\* the "heroes" lists of a request
HeroLists ==
    UNION {[1..n -> HeroTuples] : n \in {0, 1, 2}}

UpsertHeroStatAdditive(hs, pid, h) ==
    IF hs[<<pid, h.hero_id>>] = NoRow
    THEN [hs EXCEPT ![<<pid, h.hero_id>>] = [matches |-> h.games, wins |-> h.wins]]
    ELSE [hs EXCEPT ![<<pid, h.hero_id>>] =
              [matches |-> @.matches + h.games, wins |-> @.wins + h.wins]]

\* INSERT INTO hero_stats ... ON CONFLICT(player_id, hero_id) DO UPDATE SET
\*   matches=excluded.matches, wins=excluded.wins
UpsertHeroStat(hs, pid, h) ==
    [hs EXCEPT ![<<pid, h.hero_id>>] = [matches |-> h.games, wins |-> h.wins]]

UpsertBestOnTie(b, pid, h) ==
    IF b[h.hero_id] = NoRow \/ h.games >= b[h.hero_id].matches
    THEN [b EXCEPT ![h.hero_id] = [player_id |-> pid, matches |-> h.games, wins |-> h.wins]]
    ELSE b

UpsertBestAlways(b, pid, h) ==
    [b EXCEPT ![h.hero_id] = [player_id |-> pid, matches |-> h.games, wins |-> h.wins]]

\* INSERT INTO best ... ON CONFLICT(hero_id) DO UPDATE SET matches, wins, player_id
\*   WHERE excluded.matches > best.matches
UpsertBest(b, pid, h) ==
    IF b[h.hero_id] = NoRow \/ h.games > b[h.hero_id].matches
    THEN [b EXCEPT ![h.hero_id] = [player_id |-> pid, matches |-> h.games, wins |-> h.wins]]
    ELSE b

RECURSIVE RecordHeroStatsAll(_, _, _, _)
RecordHeroStatsAll(hs, pid, heroes, i) ==
    IF i > Len(heroes) THEN hs
    ELSE RecordHeroStatsAll(UpsertHeroStat(hs, pid, heroes[i]), pid, heroes, i + 1)

RECURSIVE RecordHeroStats(_, _, _, _)
\* for h in heroes: skip a hero id that HEROES does not name, else upsert hero_stats
RecordHeroStats(hs, pid, heroes, i) ==
    IF i > Len(heroes) THEN hs
    ELSE IF heroes[i].hero_id \notin HEROES
         THEN RecordHeroStats(hs, pid, heroes, i + 1)
         ELSE RecordHeroStats(UpsertHeroStat(hs, pid, heroes[i]), pid, heroes, i + 1)

RECURSIVE RecordBest(_, _, _, _)
\* for h in heroes: skip a hero id that HEROES does not name, else upsert best
RecordBest(b, pid, heroes, i) ==
    IF i > Len(heroes) THEN b
    ELSE IF heroes[i].hero_id \notin HEROES
         THEN RecordBest(b, pid, heroes, i + 1)
         ELSE RecordBest(UpsertBest(b, pid, heroes[i]), pid, heroes, i + 1)

\* the submitted tuples as history entries
Submitted(pid, heroes) ==
    [i \in 1..Len(heroes) |->
        [player_id |-> pid, hero_id |-> heroes[i].hero_id,
         games |-> heroes[i].games, wins |-> heroes[i].wins]]

(***************************************************************************)
(* Schema initialisation.                                                  *)
(***************************************************************************)
\* INSERT INTO players (steamAccountId, depth) VALUES (INITIAL_PLAYER_ID, 0)
\*   ON CONFLICT (steamAccountId) DO NOTHING
ensure_schema(p) ==
    IF p[INITIAL_PLAYER_ID] = NoRow
    THEN [p EXCEPT ![INITIAL_PLAYER_ID] = NewPlayerRow(0)]
    ELSE p

\* SELECT COUNT(*) FROM players
PlayerCount(p) ==
    Cardinality({id \in PlayerIds : p[id] # NoRow})

\* whether maybe_convert_sqlite goes on to copy the legacy rows
ConvertsLegacy(p, legacy) ==
    /\ legacy # NoRow
    /\ PlayerCount(p) = 0

\* INSERT INTO players ... ON CONFLICT (steamAccountId) DO UPDATE SET every column
ImportPlayers(p, legacy) ==
    [id \in PlayerIds |-> IF legacy[id] # NoRow THEN legacy[id] ELSE p[id]]

\* the legacy files the model starts from: none, or one with a finished, still assigned player
LegacyFiles ==
    {NoRow,
     [id \in PlayerIds |->
        IF id = 1
        THEN [depth |-> 0, assigned_to |-> "browser", assigned_at |-> 0,
              hero_refreshed_at |-> NULL, hero_done |-> TRUE, discover_done |-> FALSE,
              seen_count |-> 0]
        ELSE NoRow]}

(***************************************************************************)
(* Store operations.                                                       *)
(***************************************************************************)
StoreInit ==
    /\ players = [id \in PlayerIds |-> NoRow]
    /\ hero_stats = [k \in PlayerIds \X HeroInputs |-> NoRow]
    /\ best = [h \in HeroInputs |-> NoRow]
    /\ now = 0
    /\ legacy_db \in LegacyFiles
    /\ grants = [id \in PlayerIds |-> 0]
    /\ history = <<>>
    /\ last = [op |-> "init", id |-> NoTaskId]

\* GET /seed?start=&end=
seed(start, end) ==
    /\ players' = SeedRange(players, start, end)
    /\ last' = [op |-> "seed", id |-> NoTaskId, start |-> start, end |-> end]
    /\ UNCHANGED <<hero_stats, best, now, legacy_db, grants, history>>
    /\ UNCHANGED <<workerVars, sideVars>>

\* POST /task: one UPDATE ... WHERE id = (SELECT ... LIMIT 1) RETURNING id
task ==
    \/ \E id \in PlayerIds :
          /\ FetchEligible(players, id)
          /\ players' = [players EXCEPT ![id] = AssignRow(@, now)]
          /\ grants' = [grants EXCEPT ![id] = @ + 1]
          /\ last' = [op |-> "task", id |-> id]
          /\ UNCHANGED <<hero_stats, best, now, legacy_db, history>>
          /\ UNCHANGED <<workerVars, sideVars>>
    \/ /\ \A id \in PlayerIds : ~FetchEligible(players, id)
       /\ last' = [op |-> "task", id |-> NoTaskId]
       /\ UNCHANGED <<players, hero_stats, best, now, legacy_db, grants, history>>
       /\ UNCHANGED <<workerVars, sideVars>>

\* POST /submit
submit(pid, heroes) ==
    /\ Len(history) + Len(heroes) <= MaxSubmits
    /\ hero_stats' = RecordHeroStats(hero_stats, pid, heroes, 1)
    /\ best' = RecordBest(best, pid, heroes, 1)
    /\ players' = MarkDone(players, pid)
    /\ grants' = ZeroGrants(grants, {pid})
    /\ history' = history \o Submitted(pid, heroes)
    /\ last' = [op |-> "submit", id |-> pid]
    /\ UNCHANGED <<now, legacy_db>>
    /\ UNCHANGED <<workerVars, sideVars>>

\* POST /task/reset: the lease is cleared and no step is marked done
reset_task(pid) ==
    /\ players[pid] # NoRow
    /\ players' = [players EXCEPT ![pid] = ClearLease(@)]
    /\ grants' = ZeroGrants(grants, {pid})
    /\ last' = [op |-> "reset", id |-> pid]
    /\ UNCHANGED <<hero_stats, best, now, legacy_db, history>>
    /\ UNCHANGED <<workerVars, sideVars>>

\* complete_discover(node_id) of the player store: the discovery step of a fetched node is done
complete_discover(pid) ==
    /\ players[pid] # NoRow
    /\ players[pid].hero_done
    /\ players' = [players EXCEPT ![pid].discover_done = TRUE]
    /\ grants' = ZeroGrants(grants, {pid})
    /\ last' = [op |-> "complete_discover", id |-> pid]
    /\ UNCHANGED <<hero_stats, best, now, legacy_db, history>>
    /\ UNCHANGED <<workerVars, sideVars>>

\* release_incomplete_assignments(max_age_minutes) of the PostgreSQL store
release_incomplete_assignments(max_age_minutes) ==
    /\ players' = ClearLeases(players, ReapedIds(players, now, max_age_minutes))
    /\ grants' = ZeroGrants(grants, ReapedIds(players, now, max_age_minutes))
    /\ last' = [op |-> "reap", id |-> NoTaskId,
                rowcount |-> Cardinality(ReapedIds(players, now, max_age_minutes))]
    /\ UNCHANGED <<hero_stats, best, now, legacy_db, history>>
    /\ UNCHANGED <<workerVars, sideVars>>

\* release_incomplete_assignments() of the SQLite store
release_incomplete_assignments_sqlite ==
    /\ players' = ClearLeases(players, LegacyReapedIds(players))
    /\ grants' = ZeroGrants(grants, LegacyReapedIds(players))
    /\ last' = [op |-> "reap_sqlite", id |-> NoTaskId]
    /\ UNCHANGED <<hero_stats, best, now, legacy_db, history>>
    /\ UNCHANGED <<workerVars, sideVars>>

\* ensure_schema_exists() of a starting process: ensure_schema, then maybe_convert_sqlite
ensure_schema_exists ==
    /\ players' = IF ConvertsLegacy(ensure_schema(players), legacy_db)
                  THEN ImportPlayers(ensure_schema(players), legacy_db)
                  ELSE ensure_schema(players)
    /\ legacy_db' = IF ConvertsLegacy(ensure_schema(players), legacy_db)
                    THEN NoRow
                    ELSE legacy_db
    /\ last' = [op |-> "schema", id |-> NoTaskId]
    /\ UNCHANGED <<hero_stats, best, now, grants, history>>
    /\ UNCHANGED <<workerVars, sideVars>>

\* the clock advances
Tick ==
    /\ now + TickMinutes <= MaxTime
    /\ now' = now + TickMinutes
    /\ last' = [op |-> "tick", id |-> NoTaskId]
    /\ UNCHANGED <<players, hero_stats, best, legacy_db, grants, history>>
    /\ UNCHANGED <<workerVars, sideVars>>

(***************************************************************************)
(* The scheduler over the player table: assign_next_task and the two       *)
(* submissions, with the queues the partial indexes of ensure_indexes      *)
(* serve.                                                                  *)
(***************************************************************************)
\* WHERE hero_done=TRUE AND assigned_to IS NULL
RefreshEligible(p, id) ==
    /\ p[id] # NoRow
    /\ p[id].hero_done = TRUE
    /\ p[id].assigned_to = NULLTEXT

\* WHERE hero_done=TRUE AND discover_done=FALSE AND assigned_to IS NULL
DiscoverEligible(p, id) ==
    /\ p[id] # NoRow
    /\ p[id].hero_done = TRUE
    /\ p[id].discover_done = FALSE
    /\ p[id].assigned_to = NULLTEXT

\* COALESCE(hero_refreshed_at, '1970-01-01'): NULL sorts before every clock reading
RefreshKey(row) ==
    row.hero_refreshed_at

\* (hero_refreshed_at ASC, seen_count DESC, id ASC)
RefreshOrderLeq(a, ida, b, idb) ==
    \/ RefreshKey(a) < RefreshKey(b)
    \/ (RefreshKey(a) = RefreshKey(b) /\ a.seen_count > b.seen_count)
    \/ (RefreshKey(a) = RefreshKey(b) /\ a.seen_count = b.seen_count /\ ida <= idb)

\* (seen_count DESC, depth ASC, id ASC)
DiscoverOrderLeq(a, ida, b, idb) ==
    \/ a.seen_count > b.seen_count
    \/ (a.seen_count = b.seen_count /\ DepthKey(a) < DepthKey(b))
    \/ (a.seen_count = b.seen_count /\ DepthKey(a) = DepthKey(b) /\ ida <= idb)

\* the first row of the fetch queue
FirstFetch(p) ==
    CHOOSE id \in PlayerIds :
        /\ FetchEligible(p, id)
        /\ \A o \in PlayerIds : FetchEligible(p, o) => FetchOrderLeq(p[id], id, p[o], o)

\* the first row of the refresh queue
FirstRefresh(p) ==
    CHOOSE id \in PlayerIds :
        /\ RefreshEligible(p, id)
        /\ \A o \in PlayerIds : RefreshEligible(p, o) => RefreshOrderLeq(p[id], id, p[o], o)

\* the first row of the discover queue
FirstDiscover(p) ==
    CHOOSE id \in PlayerIds :
        /\ DiscoverEligible(p, id)
        /\ \A o \in PlayerIds : DiscoverEligible(p, o) => DiscoverOrderLeq(p[id], id, p[o], o)

NoNextTask == [id |-> NoTaskId, kind |-> "none"]

NextTaskDiscoverFirst(p) ==
    IF \E id \in PlayerIds : DiscoverEligible(p, id)
    THEN [id |-> FirstDiscover(p), kind |-> "discover"]
    ELSE IF \E id \in PlayerIds : FetchEligible(p, id)
    THEN [id |-> FirstFetch(p), kind |-> "fetch"]
    ELSE IF \E id \in PlayerIds : RefreshEligible(p, id)
    THEN [id |-> FirstRefresh(p), kind |-> "refresh"]
    ELSE NoNextTask

\* the fetch-eligible row if one exists, else a refresh-eligible row, else a
\* discover-eligible row, else no task
NextTask(p) ==
    IF \E id \in PlayerIds : FetchEligible(p, id)
    THEN [id |-> FirstFetch(p), kind |-> "fetch"]
    ELSE IF \E id \in PlayerIds : RefreshEligible(p, id)
    THEN [id |-> FirstRefresh(p), kind |-> "refresh"]
    ELSE IF \E id \in PlayerIds : DiscoverEligible(p, id)
    THEN [id |-> FirstDiscover(p), kind |-> "discover"]
    ELSE NoNextTask

\* the claim sets the lease of the selected row atomically with the selection
Claim(p, tk, t) ==
    IF tk.kind = "none" THEN p ELSE [p EXCEPT ![tk.id] = AssignRow(@, t)]

\* the outstanding answers after a claim
Granted(g, tk) ==
    IF tk.kind = "none" THEN g ELSE [g EXCEPT ![tk.id] = @ + 1]

\* complete_fetch(node_id, refreshed_at) and the release of the lease
CompleteFetch(p, pid, t) ==
    IF p[pid] = NoRow THEN p
    ELSE [p EXCEPT ![pid] = ClearLease([@ EXCEPT !.hero_done = TRUE, !.hero_refreshed_at = t])]

MarkDiscoverDoneUnfetched(p, pid) ==
    IF p[pid] = NoRow THEN p
    ELSE [p EXCEPT ![pid] = ClearLease([@ EXCEPT !.discover_done = TRUE])]

\* complete_discover(node_id) and the release of the lease: discover_done is set
\* only on a node whose fetch is done
MarkDiscoverDone(p, pid) ==
    IF p[pid] = NoRow THEN p
    ELSE IF p[pid].hero_done
         THEN [p EXCEPT ![pid] = ClearLease([@ EXCEPT !.discover_done = TRUE])]
         ELSE [p EXCEPT ![pid] = ClearLease(@)]

UpsertCandidateOverwrite(p, parent_depth, c) ==
    [p EXCEPT ![c.id] = [NewPlayerRow(parent_depth + 1) EXCEPT !.seen_count = c.count]]

UpsertCandidateLastCount(p, parent_depth, c) ==
    IF p[c.id] = NoRow
    THEN [p EXCEPT ![c.id] = [NewPlayerRow(parent_depth + 1) EXCEPT !.seen_count = c.count]]
    ELSE [p EXCEPT ![c.id].seen_count = c.count]

\* a candidate not known is inserted with depth = parent_depth + 1 and
\* seen_count = observation_count; a known one has the count added to seen_count
UpsertCandidate(p, parent_depth, c) ==
    IF p[c.id] = NoRow
    THEN [p EXCEPT ![c.id] = [NewPlayerRow(parent_depth + 1) EXCEPT !.seen_count = c.count]]
    ELSE [p EXCEPT ![c.id].seen_count = @ + c.count]

RECURSIVE UpsertDiscovered(_, _, _, _)
\* upsert_discovered(parent_depth, candidates)
UpsertDiscovered(p, parent_depth, candidates, i) ==
    IF i > Len(candidates) THEN p
    ELSE UpsertDiscovered(UpsertCandidate(p, parent_depth, candidates[i]),
                          parent_depth, candidates, i + 1)

\* the ids a submission names
CandidateIds(candidates) ==
    {candidates[i].id : i \in 1..Len(candidates)}

RECURSIVE Observe(_, _, _)
\* the observation counts of a submission added to the sums
Observe(o, candidates, i) ==
    IF i > Len(candidates) THEN o
    ELSE Observe([o EXCEPT ![candidates[i].id] = @ + candidates[i].count], candidates, i + 1)

\* the observation counts of a candidate
ObservationCounts == {1, 2}

\* the ids discoveries name: the seed node and one other node
DiscoveredIds == {1, INITIAL_PLAYER_ID}

\* the candidates of a discovery submission
Candidates == [id : DiscoveredIds, count : ObservationCounts]

\* the "discovered" lists of a submission
CandidateLists ==
    UNION {[1..n -> Candidates] : n \in {0, 1, 2}}

\* the depth a discovery submission carries
ParentDepths == {0, 1}

\* assign_next_task()
assign_next_task ==
    /\ players' = Claim(players, NextTask(players), now)
    /\ grants' = Granted(grants, NextTask(players))
    /\ last' = [op |-> "assign", id |-> NextTask(players).id, kind |-> NextTask(players).kind]
    /\ UNCHANGED <<hero_stats, best, now, legacy_db, history>>
    /\ UNCHANGED <<workerVars, sideVars>>

\* submit_fetch_result(node_id, stats): record the stats, mark the fetch done,
\* release the lease, hand back a next task
submit_fetch_result(pid, heroes) ==
    LET done == CompleteFetch(players, pid, now)
        tk == NextTask(done)
    IN  /\ players[pid] # NoRow
        /\ Len(history) + Len(heroes) <= MaxSubmits
        /\ hero_stats' = RecordHeroStats(hero_stats, pid, heroes, 1)
        /\ best' = RecordBest(best, pid, heroes, 1)
        /\ players' = Claim(done, tk, now)
        /\ grants' = Granted(ZeroGrants(grants, {pid}), tk)
        /\ history' = history \o Submitted(pid, heroes)
        /\ last' = [op |-> "submit_fetch", id |-> pid]
        /\ UNCHANGED <<now, legacy_db>>
        /\ UNCHANGED <<workerVars, sideVars>>

\* submit_discover_result(node_id, depth, discovered): register the discovered
\* nodes, mark the discovery done, release the lease, hand back a next task
submit_discover_result(pid, depth, discovered) ==
    LET upserted == UpsertDiscovered(players, depth, discovered, 1)
        done == MarkDiscoverDone(upserted, pid)
        tk == NextTask(done)
    IN  /\ players[pid] # NoRow
        /\ \A id \in PlayerIds : Observe(observed, discovered, 1)[id] <= MaxSeen
        /\ players' = Claim(done, tk, now)
        /\ observed' = Observe(observed, discovered, 1)
        /\ born' = [id \in PlayerIds |->
                      IF players[id] = NoRow /\ id \in CandidateIds(discovered)
                      THEN depth + 1 ELSE born[id]]
        /\ grants' = Granted(ZeroGrants(grants, {pid}), tk)
        /\ last' = [op |-> "submit_discover", id |-> pid, depth |-> depth,
                    known |-> {id \in CandidateIds(discovered) : players[id] # NoRow}]
        /\ UNCHANGED <<hero_stats, best, now, legacy_db, history>>
        /\ UNCHANGED <<workerVars, retryVars, poolVars, connVars, schemaVars, prefetchVars>>

(***************************************************************************)
(* The client worker loop (worker_entry).                                  *)
(***************************************************************************)
INITIAL_BACKOFF_MS == 1000
MAX_BACKOFF_MS == 86400000
NO_TASK_WAIT_MS == 60000
NO_TASK_RETRY_DELAY_MS == 100
SUCCESS_BACKOFF_MS == 10000
RATE_LIMIT_FLOOR_MS == 1000
NETWORK_WAIT_FLOOR_MS == 1000
ERROR_WAIT_FLOOR_MS == 5000

\* None as a task
NoTask == [none |-> TRUE]

FetchTask == [steamAccountId |-> 1, type |-> "fetch_hero_stats", depth |-> 0]
DiscoverTask == [steamAccountId |-> 2, type |-> "discover_matches", depth |-> 1]
\* a task whose steamAccountId int() rejects
MalformedTask == [steamAccountId |-> NULL, type |-> "fetch_hero_stats", depth |-> 0]
UnknownTypeTask == [steamAccountId |-> 3, type |-> "unknown", depth |-> 0]

\* the tasks the server may answer with
ServerTasks == {FetchTask, DiscoverTask, MalformedTask, UnknownTypeTask}

\* the retry-after values of a rate-limit response: none, a short one, one beyond the cap
RetryHints == {NULL, 500, 100000000}

\* config.max_requests: None, or the integer of a "maxRequests" entry of the
\* tokens file, which load_tokens hands on as it is
MaxRequestsConfigs == {NULL} \cup (0..MaxRequests)

\* no failure and no completion handled in this pass of the loop
NoEvent ==
    [event |-> "none", before |-> 0, hint |-> NULL, held |-> NoTask, next |-> NoTask,
     waited |-> 0]

ExecutableAnyId(t) ==
    t.type \in {"fetch_hero_stats", "discover_matches"}

\* task_type is one the loop executes and int(task_id) succeeds
Executable(t) ==
    /\ t.type \in {"fetch_hero_stats", "discover_matches"}
    /\ t.steamAccountId # NULL

Max(a, b) == IF a >= b THEN a ELSE b
Min(a, b) == IF a <= b THEN a ELSE b

\* int(math.ceil(x * 1.2))
CeilTimes12(x) == (x * 12 + 9) \div 10

GrowBackoffFromFloor(b, floor) ==
    Min(CeilTimes12(floor), MAX_BACKOFF_MS)

\* min(int(math.ceil(max(backoff_ms, floor) * 1.2)), MAX_BACKOFF_MS)
GrowBackoff(b, floor) ==
    Min(CeilTimes12(Max(b, floor)), MAX_BACKOFF_MS)

ClampWaitUnbounded(w) ==
    Max(0, w)

\* wait_ms = max(0, min(int(wait_ms), MAX_BACKOFF_MS))
ClampWait(w) ==
    Max(0, Min(w, MAX_BACKOFF_MS))

\* wait_ms = min(max(backoff_ms, floor), MAX_BACKOFF_MS)
FailureWait(b, floor) ==
    Min(Max(b, floor), MAX_BACKOFF_MS)

\* the threads that call TaskPool.get
Callers == {1, 2}

\* the tasks assign_next_task can hand out
TaskIds == 1..MaxTasks

\* no TaskPool has been constructed
PoolIdle ==
    /\ max_size = 0
    /\ pool_queue = <<>>
    /\ refill_event = FALSE
    /\ pool_stop_event = FALSE
    /\ fill_pc = "unstarted"
    /\ fill_task = NoTaskId
    /\ stop_pc = "unstarted"
    /\ get_pc = [c \in Callers |-> "idle"]
    /\ get_task = [c \in Callers |-> NoTaskId]
    /\ get_src = [c \in Callers |-> "none"]
    /\ get_head = [c \in Callers |-> NoTaskId]
    /\ get_calls = [c \in Callers |-> 0]
    /\ issued = 0
    /\ delivered = [t \in TaskIds |-> 0]
    /\ low_since_full = TRUE

\* no call of retryable_execute is under way
RetryIdle ==
    /\ r_pc = "idle"
    /\ r_fn = "none"
    /\ r_interval = 0
    /\ r_params = "none"
    /\ r_outcomes = <<>>
    /\ r_slept = <<>>
    /\ r_raised = "none"

\* no discovery has been submitted
SchedIdle ==
    /\ observed = [id \in PlayerIds |-> 0]
    /\ born = [id \in PlayerIds |-> NULL]

\* the threads that call db_connection
DbThreads == {1, 2}

ConnIds == 1..MaxConns
CallIds == 1..MaxCalls

\* a change of a block: the call that made it and its position in the block
Changes == CallIds \X {1, 2}

NoOrigin == [thread |-> 0, write |-> FALSE, call |-> 0]

\* no connection exists and no db_connection call is under way
ConnIdle ==
    /\ db_state = [c \in ConnIds |-> "unused"]
    /\ db_origin = [c \in ConnIds |-> NoOrigin]
    /\ db_pending = [c \in ConnIds |-> {}]
    /\ db_committed = {}
    /\ db_cache = [t \in DbThreads |-> 0]
    /\ db_pc = [t \in DbThreads |-> "idle"]
    /\ db_write = [t \in DbThreads |-> FALSE]
    /\ db_conn = [t \in DbThreads |-> 0]
    /\ db_call = [t \in DbThreads |-> 0]
    /\ db_calls = 0
    /\ db_wrote = [k \in CallIds |-> {}]
    /\ db_done = [k \in CallIds |-> "none"]
    /\ db_failed = {}

\* a process that has not called ensure_schema_exists yet
SchemaIdle ==
    /\ schema_initialized = FALSE
    /\ init_pc = [t \in DbThreads |-> "idle"]
    /\ init_calls = 0
    /\ init_started = 0
    /\ init_completed = 0
    /\ init_failed = 0

\* an empty prefetch buffer and no task handed out
PrefetchIdle ==
    /\ pf_queue = <<>>
    /\ pf_held = [c \in Callers |-> [id |-> NoTaskId, kind |-> "none"]]

SideIdle == SchedIdle /\ RetryIdle /\ PoolIdle /\ ConnIdle /\ SchemaIdle /\ PrefetchIdle

WorkerIdle ==
    /\ w_pc = "idle"
    /\ w_task = NoTask
    /\ stop_event = FALSE
    /\ backoff_ms = INITIAL_BACKOFF_MS
    /\ requests_remaining = NULL
    /\ completed_tasks = 0
    /\ wait_ms = 0
    /\ after_wait = "none"
    /\ unreturned = NoTask
    /\ max_requests = NULL
    /\ w_last = NoEvent
    /\ wait_elapsed = 0
    /\ sleep_ms = 0
    /\ polls = 0
    /\ run_backoff = NULL
    /\ run_invalid = FALSE

\* worker_entry up to the loop: requests_remaining = config.max_requests, backoff_ms = INITIAL_BACKOFF_MS
WorkerInit ==
    /\ w_pc = "loop"
    /\ w_task = NoTask
    /\ stop_event = FALSE
    /\ backoff_ms = INITIAL_BACKOFF_MS
    /\ max_requests \in MaxRequestsConfigs
    /\ requests_remaining = max_requests
    /\ completed_tasks = 0
    /\ wait_ms = 0
    /\ after_wait = "none"
    /\ unreturned = NoTask
    /\ w_last = NoEvent
    /\ wait_elapsed = 0
    /\ sleep_ms = 0
    /\ polls = 0
    /\ run_backoff = NULL
    /\ run_invalid = FALSE

\* the GUI sets the stop event
RequestStop ==
    /\ ~stop_event
    /\ w_pc \notin {"stopped", "limit"}
    /\ stop_event' = TRUE
    /\ UNCHANGED <<w_pc, w_task, backoff_ms, requests_remaining, completed_tasks,
                   wait_ms, after_wait, unreturned>>
    /\ UNCHANGED <<max_requests, w_last, waitVars, runVars>>
    /\ UNCHANGED <<storeVars, sideVars>>

\* while not stop_event.is_set(): ... if task is None: fetch, else go on with the task held
LoopHead ==
    /\ w_pc = "loop"
    /\ w_pc' = IF stop_event THEN "stopped"
               ELSE IF w_task = NoTask THEN "fetch_task" ELSE "dispatch"
    /\ UNCHANGED <<w_task, stop_event, backoff_ms, requests_remaining, completed_tasks,
                   wait_ms, after_wait, unreturned>>
    /\ w_last' = NoEvent
    /\ UNCHANGED <<max_requests, waitVars, runVars>>
    /\ UNCHANGED <<storeVars, sideVars>>

\* except requests.RequestException: reset the task held, wait, then grow the backoff
OnRequestException ==
    /\ w_task' = NoTask
    /\ unreturned' = IF w_task # NoTask THEN NoTask ELSE unreturned
    /\ wait_ms' = FailureWait(backoff_ms, NETWORK_WAIT_FLOOR_MS)
    /\ after_wait' = "network"
    /\ w_pc' = "wait"
    /\ UNCHANGED <<stop_event, backoff_ms, requests_remaining, completed_tasks>>
    /\ w_last' = [event |-> "network", before |-> backoff_ms, hint |-> NULL,
                  held |-> w_task, next |-> NoTask, waited |-> wait_ms']
    /\ UNCHANGED <<max_requests, waitVars, runVars>>
    /\ UNCHANGED <<storeVars, sideVars>>

\* except Exception: reset the task held, wait, then grow the backoff
OnException ==
    /\ w_task' = NoTask
    /\ unreturned' = IF w_task # NoTask THEN NoTask ELSE unreturned
    /\ wait_ms' = FailureWait(backoff_ms, ERROR_WAIT_FLOOR_MS)
    /\ after_wait' = "error"
    /\ w_pc' = "wait"
    /\ UNCHANGED <<stop_event, backoff_ms, requests_remaining, completed_tasks>>
    /\ w_last' = [event |-> "error", before |-> backoff_ms, hint |-> NULL,
                  held |-> w_task, next |-> NoTask, waited |-> wait_ms']
    /\ UNCHANGED <<max_requests, waitVars, runVars>>
    /\ UNCHANGED <<storeVars, sideVars>>

\* except RateLimitError: wait the hint or the backoff; the task is dropped after the wait
OnRateLimit(retry_after_ms) ==
    /\ wait_ms' = ClampWait(IF retry_after_ms # NULL THEN retry_after_ms ELSE backoff_ms)
    /\ backoff_ms' = wait_ms'
    /\ after_wait' = IF retry_after_ms = NULL THEN "rate_limit" ELSE "rate_limit_hint"
    /\ w_pc' = "wait"
    /\ UNCHANGED <<w_task, stop_event, requests_remaining, completed_tasks, unreturned>>
    /\ w_last' = [event |-> "rate_limit", before |-> backoff_ms, hint |-> retry_after_ms,
                  held |-> w_task, next |-> NoTask, waited |-> wait_ms']
    /\ UNCHANGED <<max_requests, waitVars>>
    /\ run_backoff' = IF retry_after_ms # NULL THEN NULL ELSE run_backoff
    /\ run_invalid' = IF retry_after_ms # NULL THEN FALSE ELSE run_invalid
    /\ UNCHANGED <<storeVars, sideVars>>

\* task = _fetch_task(...): the server answers with a task or with none
FetchTaskReturns(t) ==
    /\ w_pc = "fetch_task"
    /\ w_task' = t
    /\ unreturned' = t
    /\ w_pc' = "fetched"
    /\ UNCHANGED <<stop_event, backoff_ms, requests_remaining, completed_tasks,
                   wait_ms, after_wait>>
    /\ UNCHANGED <<max_requests, w_last, waitVars, runVars>>
    /\ UNCHANGED <<storeVars, sideVars>>

\* task = _fetch_task(...) raises requests.RequestException
FetchTaskFails ==
    /\ w_pc = "fetch_task"
    /\ OnRequestException

AfterFetchKeepBackoff ==
    /\ w_pc = "fetched"
    /\ IF stop_event
       THEN /\ w_pc' = "stopped"
            /\ UNCHANGED <<backoff_ms, wait_ms, after_wait>>
       ELSE IF w_task = NoTask
            THEN /\ UNCHANGED backoff_ms
                 /\ wait_ms' = NO_TASK_WAIT_MS
                 /\ after_wait' = "no_task"
                 /\ w_pc' = "wait"
            ELSE /\ w_pc' = "dispatch"
                 /\ UNCHANGED <<backoff_ms, wait_ms, after_wait>>
    /\ UNCHANGED <<w_task, stop_event, requests_remaining, completed_tasks, unreturned>>
    /\ UNCHANGED <<max_requests, w_last, waitVars>>
    /\ run_backoff' = IF ~stop_event /\ w_task = NoTask THEN NULL ELSE run_backoff
    /\ run_invalid' = IF ~stop_event /\ w_task = NoTask THEN FALSE ELSE run_invalid
    /\ UNCHANGED <<storeVars, sideVars>>

\* after _fetch_task: break on stop; the no-task wait; else go on to the task
AfterFetch ==
    /\ w_pc = "fetched"
    /\ IF stop_event
       THEN /\ w_pc' = "stopped"
            /\ UNCHANGED <<backoff_ms, wait_ms, after_wait>>
       ELSE IF w_task = NoTask
            THEN /\ backoff_ms' = NO_TASK_WAIT_MS
                 /\ wait_ms' = NO_TASK_WAIT_MS
                 /\ after_wait' = "no_task"
                 /\ w_pc' = "wait"
            ELSE /\ w_pc' = "dispatch"
                 /\ UNCHANGED <<backoff_ms, wait_ms, after_wait>>
    /\ UNCHANGED <<w_task, stop_event, requests_remaining, completed_tasks, unreturned>>
    /\ UNCHANGED <<max_requests, w_last, waitVars>>
    /\ run_backoff' = IF ~stop_event /\ w_task = NoTask THEN NULL ELSE run_backoff
    /\ run_invalid' = IF ~stop_event /\ w_task = NoTask THEN FALSE ELSE run_invalid
    /\ UNCHANGED <<storeVars, sideVars>>

\* if stop_event.is_set(): reset the task and break; then the dispatch on task type and id
Dispatch ==
    /\ w_pc = "dispatch"
    /\ IF stop_event
       THEN /\ w_task' = NoTask
            /\ unreturned' = NoTask
            /\ w_pc' = "stopped"
            /\ UNCHANGED backoff_ms
       ELSE IF Executable(w_task)
            THEN /\ w_pc' = "query"
                 /\ UNCHANGED <<w_task, unreturned, backoff_ms>>
            ELSE /\ w_task' = NoTask
                 /\ unreturned' = NoTask
                 /\ backoff_ms' = INITIAL_BACKOFF_MS
                 /\ w_pc' = "loop"
    /\ w_last' = IF ~stop_event /\ ~Executable(w_task)
                 THEN [event |-> "invalid", before |-> backoff_ms, hint |-> NULL,
                       held |-> w_task, next |-> NoTask, waited |-> 0]
                 ELSE w_last
    /\ UNCHANGED <<stop_event, requests_remaining, completed_tasks, wait_ms, after_wait>>
    /\ UNCHANGED <<max_requests, waitVars>>
    /\ run_invalid' = (run_invalid \/ (run_backoff # NULL /\ ~stop_event /\ ~Executable(w_task)))
    /\ UNCHANGED run_backoff
    /\ UNCHANGED <<storeVars, sideVars>>

\* _fetch_player_heroes / _discover_matches return
QueryReturns ==
    /\ w_pc = "query"
    /\ w_pc' = "submit"
    /\ UNCHANGED <<w_task, stop_event, backoff_ms, requests_remaining, completed_tasks,
                   wait_ms, after_wait, unreturned>>
    /\ UNCHANGED <<max_requests, w_last, waitVars, runVars>>
    /\ UNCHANGED <<storeVars, sideVars>>

\* _execute_stratz_query raises RateLimitError on a 429
QueryRateLimited(retry_after_ms) ==
    /\ w_pc = "query"
    /\ OnRateLimit(retry_after_ms)

\* _execute_stratz_query raises requests.RequestException
QueryFails ==
    /\ w_pc = "query"
    /\ OnRequestException

\* _execute_stratz_query raises RuntimeError (403, GraphQL errors)
QueryErrors ==
    /\ w_pc = "query"
    /\ OnException

SubmitReturnsKeepBackoff(next_task) ==
    /\ w_pc = "submit"
    /\ completed_tasks < MaxCompleted
    /\ completed_tasks' = completed_tasks + 1
    /\ requests_remaining' = IF requests_remaining = NULL THEN NULL
                             ELSE Max(0, requests_remaining - 1)
    /\ IF requests_remaining' = 0
       THEN /\ unreturned' = NoTask
            /\ w_pc' = "limit"
            /\ UNCHANGED <<w_task, backoff_ms, wait_ms, after_wait>>
       ELSE /\ w_task' = next_task
            /\ unreturned' = next_task
            /\ UNCHANGED backoff_ms
            /\ IF next_task = NoTask
               THEN /\ wait_ms' = NO_TASK_RETRY_DELAY_MS
                    /\ after_wait' = "idle"
                    /\ w_pc' = "wait"
               ELSE /\ w_pc' = "loop"
                    /\ UNCHANGED <<wait_ms, after_wait>>
    /\ UNCHANGED stop_event
    /\ w_last' = [event |-> "completed", before |-> backoff_ms, hint |-> NULL,
                  held |-> w_task, next |-> next_task, waited |-> 0]
    /\ UNCHANGED <<max_requests, waitVars>>
    /\ run_backoff' = NULL
    /\ run_invalid' = FALSE
    /\ UNCHANGED <<storeVars, sideVars>>

\* _submit_... returns next_task; the bookkeeping of a completed task
SubmitReturns(next_task) ==
    /\ w_pc = "submit"
    /\ completed_tasks < MaxCompleted
    /\ completed_tasks' = completed_tasks + 1
    /\ requests_remaining' = IF requests_remaining = NULL THEN NULL
                             ELSE Max(0, requests_remaining - 1)
    /\ IF requests_remaining' = 0
       THEN /\ unreturned' = NoTask
            /\ w_pc' = "limit"
            /\ UNCHANGED <<w_task, backoff_ms, wait_ms, after_wait>>
       ELSE /\ w_task' = next_task
            /\ unreturned' = next_task
            /\ backoff_ms' = SUCCESS_BACKOFF_MS
            /\ IF next_task = NoTask
               THEN /\ wait_ms' = NO_TASK_RETRY_DELAY_MS
                    /\ after_wait' = "idle"
                    /\ w_pc' = "wait"
               ELSE /\ w_pc' = "loop"
                    /\ UNCHANGED <<wait_ms, after_wait>>
    /\ UNCHANGED stop_event
    /\ w_last' = [event |-> "completed", before |-> backoff_ms, hint |-> NULL,
                  held |-> w_task, next |-> next_task, waited |-> 0]
    /\ UNCHANGED <<max_requests, waitVars>>
    /\ run_backoff' = NULL
    /\ run_invalid' = FALSE
    /\ UNCHANGED <<storeVars, sideVars>>

\* _submit_... raises requests.RequestException (the request or its response is lost)
SubmitFails ==
    /\ w_pc = "submit"
    /\ OnRequestException

\* time.sleep(min(0.5, remaining)) as int milliseconds
POLL_INTERVAL_MS == 500

WaitPollIgnoringStop ==
    /\ w_pc = "wait"
    /\ sleep_ms = 0
    /\ wait_ms - wait_elapsed > 0
    /\ sleep_ms' = Min(POLL_INTERVAL_MS, wait_ms - wait_elapsed)
    /\ UNCHANGED <<w_pc, w_task, stop_event, backoff_ms, requests_remaining, completed_tasks,
                   wait_ms, after_wait, unreturned, max_requests, w_last>>
    /\ UNCHANGED <<wait_elapsed, polls>>
    /\ UNCHANGED runVars
    /\ UNCHANGED <<storeVars, sideVars>>

\* _wait: while not stop_event.is_set(): remaining > 0, so time.sleep(min(0.5, remaining))
WaitPoll ==
    /\ w_pc = "wait"
    /\ sleep_ms = 0
    /\ ~stop_event
    /\ wait_ms - wait_elapsed > 0
    /\ sleep_ms' = Min(POLL_INTERVAL_MS, wait_ms - wait_elapsed)
    /\ UNCHANGED <<w_pc, w_task, stop_event, backoff_ms, requests_remaining, completed_tasks,
                   wait_ms, after_wait, unreturned, max_requests, w_last>>
    /\ UNCHANGED <<wait_elapsed, polls>>
    /\ UNCHANGED runVars
    /\ UNCHANGED <<storeVars, sideVars>>

\* _wait: time.sleep returns after the time asked for, or later; past MaxPolls
\* sleeps of one wait the model lets the rest of the duration pass in one sleep
WaitWake ==
    /\ w_pc = "wait"
    /\ sleep_ms > 0
    /\ \/ /\ polls < MaxPolls
          /\ wait_elapsed' = wait_elapsed + sleep_ms
          /\ polls' = polls + 1
       \/ /\ wait_elapsed' = wait_ms
          /\ UNCHANGED polls
    /\ sleep_ms' = 0
    /\ UNCHANGED <<w_pc, w_task, stop_event, backoff_ms, requests_remaining, completed_tasks,
                   wait_ms, after_wait, unreturned, max_requests, w_last>>
    /\ UNCHANGED runVars
    /\ UNCHANGED <<storeVars, sideVars>>

\* _wait returns (duration_ms <= 0, the stop event is set or remaining <= 0); the rest
\* of the branch
WaitReturns ==
    /\ w_pc = "wait"
    /\ sleep_ms = 0
    /\ stop_event \/ wait_ms - wait_elapsed <= 0
    /\ backoff_ms' =
         CASE after_wait = "rate_limit" -> GrowBackoff(backoff_ms, RATE_LIMIT_FLOOR_MS)
           [] after_wait = "network" -> GrowBackoff(backoff_ms, NETWORK_WAIT_FLOOR_MS)
           [] after_wait = "error" -> GrowBackoff(backoff_ms, ERROR_WAIT_FLOOR_MS)
           [] OTHER -> backoff_ms
    /\ w_task' = IF after_wait \in {"rate_limit", "rate_limit_hint"} THEN NoTask ELSE w_task
    /\ wait_ms' = 0
    /\ after_wait' = "none"
    /\ w_pc' = "loop"
    /\ wait_elapsed' = 0
    /\ polls' = 0
    /\ UNCHANGED sleep_ms
    /\ UNCHANGED <<stop_event, requests_remaining, completed_tasks, unreturned>>
    /\ UNCHANGED <<max_requests, w_last>>
    /\ run_backoff' = IF after_wait \in {"rate_limit", "network", "error"}
                     THEN backoff_ms' ELSE run_backoff
    /\ run_invalid' = IF after_wait \in {"rate_limit", "network", "error"}
                     THEN FALSE ELSE run_invalid
    /\ UNCHANGED <<storeVars, sideVars>>

WorkerNext ==
    \/ RequestStop
    \/ LoopHead
    \/ \E t \in ServerTasks \cup {NoTask} : FetchTaskReturns(t)
    \/ FetchTaskFails
    \/ AfterFetch
    \/ Dispatch
    \/ QueryReturns
    \/ \E h \in RetryHints : QueryRateLimited(h)
    \/ QueryFails
    \/ QueryErrors
    \/ \E t \in ServerTasks \cup {NoTask} : SubmitReturns(t)
    \/ SubmitFails
    \/ WaitPoll
    \/ WaitWake
    \/ WaitReturns

vars == <<storeVars, workerVars, sideVars>>

Init == StoreInit /\ WorkerIdle /\ SideIdle

Next ==
    \/ \E start \in SeedIds, end \in SeedIds : seed(start, end)
    \/ task
    \/ \E pid \in PlayerIds : submit(pid, <<>>)
    \/ \E pid \in PlayerIds : reset_task(pid)
    \/ \E pid \in PlayerIds : complete_discover(pid)
    \/ release_incomplete_assignments(MaxAgeMinutes)
    \/ release_incomplete_assignments_sqlite
    \/ ensure_schema_exists
    \/ Tick

Spec == Init /\ [][Next]_vars

\* the store a first connection leaves: ensure_schema_exists has run, no legacy file
SchedInit ==
    /\ players = ensure_schema([id \in PlayerIds |-> NoRow])
    /\ hero_stats = [k \in PlayerIds \X HeroInputs |-> NoRow]
    /\ best = [h \in HeroInputs |-> NoRow]
    /\ now = 0
    /\ legacy_db = NoRow
    /\ grants = [id \in PlayerIds |-> 0]
    /\ history = <<>>
    /\ last = [op |-> "schema", id |-> NoTaskId]
    /\ WorkerIdle
    /\ SideIdle

SchedNext ==
    \/ assign_next_task
    \/ \E pid \in PlayerIds : submit_fetch_result(pid, <<>>)
    \/ \E pid \in PlayerIds, depth \in ParentDepths, discovered \in CandidateLists :
          submit_discover_result(pid, depth, discovered)
    \/ \E pid \in PlayerIds : reset_task(pid)

SchedSpec == SchedInit /\ [][SchedNext]_vars

(***************************************************************************)
(* retryable_execute and retryable_executemany.                            *)
(***************************************************************************)
DEFAULT_RETRY_INTERVAL_MS == 500

\* _RETRYABLE_ERRORS
RETRYABLE_ERRORS == {"DeadlockDetected", "SerializationFailure", "LockNotAvailable"}

\* the other subclasses of psycopg.Error a statement may raise
OtherErrors == {"UniqueViolation", "InFailedSqlTransaction"}

\* what one target.execute / cursor.executemany call ends with
Outcomes == {"ok"} \cup RETRYABLE_ERRORS \cup OtherErrors

\* the retry_interval arguments: the default and another one
RetryIntervals == {DEFAULT_RETRY_INTERVAL_MS, 100}

RetryableAnyError(e) ==
    e # "ok"

\* except _RETRYABLE_ERRORS
Retryable(e) ==
    e \in RETRYABLE_ERRORS

\* a caller enters retryable_execute(target, sql, parameters, retry_interval=...)
CallExecute(interval) ==
    /\ r_pc = "idle"
    /\ r_pc' = "execute"
    /\ r_fn' = "retryable_execute"
    /\ r_interval' = interval
    /\ r_params' = "list"
    /\ UNCHANGED <<r_outcomes, r_slept, r_raised>>
    /\ UNCHANGED <<storeVars, workerVars, schedVars, poolVars, connVars, schemaVars, prefetchVars>>

\* a caller enters retryable_executemany(...): an iterable that is no list or
\* tuple is turned into a list before the loop
CallExecuteMany(interval, params) ==
    /\ r_pc = "idle"
    /\ r_pc' = "execute"
    /\ r_fn' = "retryable_executemany"
    /\ r_interval' = interval
    /\ r_params' = IF params \in {"list", "tuple"} THEN params ELSE "list"
    /\ UNCHANGED <<r_outcomes, r_slept, r_raised>>
    /\ UNCHANGED <<storeVars, workerVars, schedVars, poolVars, connVars, schemaVars, prefetchVars>>

\* one pass of the while True loop: the statement runs and returns, raises one
\* of _RETRYABLE_ERRORS, or raises another Error
Attempt(outcome) ==
    /\ r_pc = "execute"
    /\ Len(r_outcomes) < MaxAttempts
    /\ r_outcomes' = Append(r_outcomes, outcome)
    /\ IF outcome = "ok"
       THEN r_pc' = "returned" /\ UNCHANGED r_raised
       ELSE IF Retryable(outcome)
            THEN r_pc' = "sleep" /\ UNCHANGED r_raised
            ELSE r_pc' = "raised" /\ r_raised' = outcome
    /\ UNCHANGED <<r_fn, r_interval, r_params, r_slept>>
    /\ UNCHANGED <<storeVars, workerVars, schedVars, poolVars, connVars, schemaVars, prefetchVars>>

\* time.sleep(retry_interval); continue
RetrySleep ==
    /\ r_pc = "sleep"
    /\ r_slept' = Append(r_slept, r_interval)
    /\ r_pc' = "execute"
    /\ UNCHANGED <<r_fn, r_interval, r_params, r_outcomes, r_raised>>
    /\ UNCHANGED <<storeVars, workerVars, schedVars, poolVars, connVars, schemaVars, prefetchVars>>

RetryInit == StoreInit /\ legacy_db = NoRow /\ WorkerIdle /\ SideIdle

RetryNext ==
    \/ \E interval \in RetryIntervals : CallExecute(interval)
    \/ \E interval \in RetryIntervals, params \in {"list", "tuple", "iterator"} :
          CallExecuteMany(interval, params)
    \/ \E outcome \in Outcomes : Attempt(outcome)
    \/ RetrySleep

RetrySpec == RetryInit /\ [][RetryNext]_vars

(***************************************************************************)
(* TaskPool: the prefetch buffer, its refill thread and the get() callers. *)
(* Every step is one operation on the thread-safe queue or on an event.    *)
(***************************************************************************)
REFILL_RATIO_PERCENT == 20

\* self._refill_threshold = max(1, int(max_size * refill_ratio))
refill_threshold(n) ==
    Max(1, (n * REFILL_RATIO_PERCENT) \div 100)

QueueNeverFull(q, n) ==
    FALSE

\* queue.Queue(maxsize=max_size).full()
QueueFull(q, n) ==
    Len(q) >= n

\* what one assign_next_task() call answers: a task no call handed out before,
\* or None
AssignResults(n) ==
    (IF n < MaxTasks THEN {n + 1} ELSE {}) \cup {NoTaskId}

\* what a step of the pool leaves alone outside the pool
PoolFrame == UNCHANGED <<storeVars, workerVars, schedVars, retryVars, connVars, schemaVars, prefetchVars>>

\* a caller enters get()
GetEnter(c) ==
    /\ max_size > 0
    /\ get_pc[c] = "idle"
    /\ get_pc' = [get_pc EXCEPT ![c] = "get_nowait"]
    /\ UNCHANGED <<max_size, pool_queue, refill_event, pool_stop_event, fill_pc, fill_task,
                   stop_pc, get_task, get_src, get_head, get_calls, issued, delivered>>
    /\ UNCHANGED low_since_full
    /\ PoolFrame

GetBlocking(c) ==
    /\ get_pc[c] = "get_nowait"
    /\ pool_queue # <<>>
    /\ get_task' = [get_task EXCEPT ![c] = Head(pool_queue)]
    /\ get_head' = [get_head EXCEPT ![c] = Head(pool_queue)]
    /\ get_src' = [get_src EXCEPT ![c] = "buffer"]
    /\ pool_queue' = Tail(pool_queue)
    /\ get_pc' = [get_pc EXCEPT ![c] = "qsize"]
    /\ UNCHANGED <<max_size, refill_event, pool_stop_event, fill_pc, fill_task, stop_pc,
                   get_calls, issued, delivered>>
    /\ low_since_full' = (low_since_full \/ Len(pool_queue') <= refill_threshold(max_size))
    /\ PoolFrame

\* task = self._queue.get_nowait(), or queue.Empty
GetNowait(c) ==
    /\ get_pc[c] = "get_nowait"
    /\ IF pool_queue # <<>>
       THEN /\ get_task' = [get_task EXCEPT ![c] = Head(pool_queue)]
            /\ get_head' = [get_head EXCEPT ![c] = Head(pool_queue)]
            /\ get_src' = [get_src EXCEPT ![c] = "buffer"]
            /\ pool_queue' = Tail(pool_queue)
            /\ get_pc' = [get_pc EXCEPT ![c] = "qsize"]
       ELSE /\ get_pc' = [get_pc EXCEPT ![c] = "assign"]
            /\ UNCHANGED <<get_task, get_head, get_src, pool_queue>>
    /\ UNCHANGED <<max_size, refill_event, pool_stop_event, fill_pc, fill_task, stop_pc,
                   get_calls, issued, delivered>>
    /\ low_since_full' = (low_since_full \/ Len(pool_queue') <= refill_threshold(max_size))
    /\ PoolFrame

\* except queue.Empty: task = assign_next_task()
GetAssign(c) ==
    /\ get_pc[c] = "assign"
    /\ \E t \in AssignResults(issued) :
          /\ get_task' = [get_task EXCEPT ![c] = t]
          /\ issued' = IF t = NoTaskId THEN issued ELSE t
    /\ get_src' = [get_src EXCEPT ![c] = "direct"]
    /\ get_calls' = [get_calls EXCEPT ![c] = @ + 1]
    /\ get_pc' = [get_pc EXCEPT ![c] = "none_check"]
    /\ UNCHANGED <<max_size, pool_queue, refill_event, pool_stop_event, fill_pc, fill_task,
                   stop_pc, get_head, delivered>>
    /\ UNCHANGED low_since_full
    /\ PoolFrame

\* else: if self._queue.qsize() <= self._refill_threshold: self._refill_event.set()
GetQsize(c) ==
    /\ get_pc[c] = "qsize"
    /\ refill_event' = IF Len(pool_queue) <= refill_threshold(max_size)
                       THEN TRUE
                       ELSE refill_event
    /\ get_pc' = [get_pc EXCEPT ![c] = "none_check"]
    /\ UNCHANGED <<max_size, pool_queue, pool_stop_event, fill_pc, fill_task, stop_pc,
                   get_task, get_src, get_head, get_calls, issued, delivered>>
    /\ UNCHANGED low_since_full
    /\ PoolFrame

\* if task is None: self._refill_event.set()
GetNoneCheck(c) ==
    /\ get_pc[c] = "none_check"
    /\ refill_event' = IF get_task[c] = NoTaskId THEN TRUE ELSE refill_event
    /\ get_pc' = [get_pc EXCEPT ![c] = "return"]
    /\ UNCHANGED <<max_size, pool_queue, pool_stop_event, fill_pc, fill_task, stop_pc,
                   get_task, get_src, get_head, get_calls, issued, delivered>>
    /\ UNCHANGED low_since_full
    /\ PoolFrame

\* return task
GetReturn(c) ==
    /\ get_pc[c] = "return"
    /\ delivered' = IF get_task[c] = NoTaskId
                    THEN delivered
                    ELSE [delivered EXCEPT ![get_task[c]] = @ + 1]
    /\ get_pc' = [get_pc EXCEPT ![c] = "idle"]
    /\ get_task' = [get_task EXCEPT ![c] = NoTaskId]
    /\ get_src' = [get_src EXCEPT ![c] = "none"]
    /\ get_head' = [get_head EXCEPT ![c] = NoTaskId]
    /\ get_calls' = [get_calls EXCEPT ![c] = 0]
    /\ UNCHANGED <<max_size, pool_queue, refill_event, pool_stop_event, fill_pc, fill_task,
                   stop_pc, issued>>
    /\ UNCHANGED low_since_full
    /\ PoolFrame

\* the step of get() a caller inside get() stands at
GetStep(c) ==
    \/ GetNowait(c)
    \/ GetAssign(c)
    \/ GetQsize(c)
    \/ GetNoneCheck(c)
    \/ GetReturn(c)

\* what a step of the refill thread leaves alone
FillFrame ==
    /\ UNCHANGED <<max_size, pool_stop_event, stop_pc, get_pc, get_task, get_src, get_head,
                   get_calls, delivered>>
    /\ PoolFrame

\* while not self._stop_event.is_set():
FillOuter ==
    /\ fill_pc = "outer"
    /\ fill_pc' = IF pool_stop_event THEN "done" ELSE "wait"
    /\ UNCHANGED <<pool_queue, refill_event, fill_task, issued>>
    /\ UNCHANGED low_since_full
    /\ FillFrame

FillWaitPolling ==
    /\ fill_pc = "wait"
    /\ fill_pc' = "stop_check"
    /\ UNCHANGED <<pool_queue, refill_event, fill_task, issued>>
    /\ UNCHANGED low_since_full
    /\ FillFrame

\* self._refill_event.wait()
FillWait ==
    /\ fill_pc = "wait"
    /\ refill_event
    /\ fill_pc' = "stop_check"
    /\ UNCHANGED <<pool_queue, refill_event, fill_task, issued>>
    /\ UNCHANGED low_since_full
    /\ FillFrame

\* if self._stop_event.is_set(): break
FillStopCheck ==
    /\ fill_pc = "stop_check"
    /\ fill_pc' = IF pool_stop_event THEN "done" ELSE "clear"
    /\ UNCHANGED <<pool_queue, refill_event, fill_task, issued>>
    /\ UNCHANGED low_since_full
    /\ FillFrame

\* self._refill_event.clear()
FillClear ==
    /\ fill_pc = "clear"
    /\ refill_event' = FALSE
    /\ fill_pc' = "inner"
    /\ UNCHANGED <<pool_queue, fill_task, issued>>
    /\ UNCHANGED low_since_full
    /\ FillFrame

\* while not self._stop_event.is_set() and not self._queue.full():
FillInner ==
    /\ fill_pc = "inner"
    /\ fill_pc' = IF ~pool_stop_event /\ ~QueueFull(pool_queue, max_size)
                  THEN "assign"
                  ELSE "full_check"
    /\ UNCHANGED <<pool_queue, refill_event, fill_task, issued>>
    /\ UNCHANGED low_since_full
    /\ FillFrame

\* task = assign_next_task(); if task is None: break
FillAssign ==
    /\ fill_pc = "assign"
    /\ \E t \in AssignResults(issued) :
          /\ fill_task' = t
          /\ issued' = IF t = NoTaskId THEN issued ELSE t
          /\ fill_pc' = IF t = NoTaskId THEN "full_check" ELSE "put"
    /\ UNCHANGED <<pool_queue, refill_event>>
    /\ UNCHANGED low_since_full
    /\ FillFrame

\* self._queue.put(task, timeout=0.1); except queue.Full: break
FillPut ==
    /\ fill_pc = "put"
    /\ IF ~QueueFull(pool_queue, max_size)
       THEN /\ pool_queue' = Append(pool_queue, fill_task)
            /\ fill_pc' = "inner"
       ELSE /\ fill_pc' = "full_check"
            /\ UNCHANGED pool_queue
    /\ fill_task' = NoTaskId
    /\ UNCHANGED <<refill_event, issued>>
    /\ UNCHANGED low_since_full
    /\ FillFrame

\* if self._queue.full(): continue
FillFullCheck ==
    /\ fill_pc = "full_check"
    /\ fill_pc' = IF QueueFull(pool_queue, max_size) THEN "outer" ELSE "sleep"
    /\ fill_task' = NoTaskId
    /\ UNCHANGED <<pool_queue, refill_event, issued>>
    /\ low_since_full' = (low_since_full /\ ~QueueFull(pool_queue, max_size))
    /\ FillFrame

FillSleepNoSet ==
    /\ fill_pc = "sleep"
    /\ fill_pc' = "outer"
    /\ UNCHANGED <<pool_queue, refill_event, fill_task, issued>>
    /\ UNCHANGED low_since_full
    /\ FillFrame

\* time.sleep(self._retry_interval); self._refill_event.set()
FillSleep ==
    /\ fill_pc = "sleep"
    /\ refill_event' = TRUE
    /\ fill_pc' = "outer"
    /\ UNCHANGED <<pool_queue, fill_task, issued>>
    /\ UNCHANGED low_since_full
    /\ FillFrame

\* stop(): self._stop_event.set()
StopSet ==
    /\ stop_pc = "running"
    /\ pool_stop_event' = TRUE
    /\ stop_pc' = "wake"
    /\ UNCHANGED <<max_size, pool_queue, refill_event, fill_pc, fill_task, get_pc,
                   get_task, get_src, get_head, get_calls, issued, delivered>>
    /\ UNCHANGED low_since_full
    /\ PoolFrame

StopWakeNoSet ==
    /\ stop_pc = "wake"
    /\ stop_pc' = "stopped"
    /\ UNCHANGED <<max_size, pool_queue, refill_event, pool_stop_event, fill_pc, fill_task,
                   get_pc, get_task, get_src, get_head, get_calls, issued, delivered>>
    /\ UNCHANGED low_since_full
    /\ PoolFrame

\* stop(): self._refill_event.set(), then a join that gives up after a second
StopWake ==
    /\ stop_pc = "wake"
    /\ refill_event' = TRUE
    /\ stop_pc' = "stopped"
    /\ UNCHANGED <<max_size, pool_queue, pool_stop_event, fill_pc, fill_task, get_pc,
                   get_task, get_src, get_head, get_calls, issued, delivered>>
    /\ UNCHANGED low_since_full
    /\ PoolFrame

\* TaskPool(max_size=n) has returned: the refill thread is started and the
\* first fill is requested
PoolConstructed(n) ==
    /\ max_size = n
    /\ pool_queue = <<>>
    /\ refill_event = TRUE
    /\ pool_stop_event = FALSE
    /\ fill_pc = "outer"
    /\ fill_task = NoTaskId
    /\ stop_pc = "running"
    /\ get_pc = [c \in Callers |-> "idle"]
    /\ get_task = [c \in Callers |-> NoTaskId]
    /\ get_src = [c \in Callers |-> "none"]
    /\ get_head = [c \in Callers |-> NoTaskId]
    /\ get_calls = [c \in Callers |-> 0]
    /\ issued = 0
    /\ delivered = [t \in TaskIds |-> 0]
    /\ low_since_full = TRUE

PoolInit ==
    /\ StoreInit
    /\ legacy_db = NoRow
    /\ WorkerIdle
    /\ SchedIdle
    /\ RetryIdle
    /\ ConnIdle
    /\ SchemaIdle
    /\ PrefetchIdle
    /\ \E n \in 1..MaxPoolSize : PoolConstructed(n)

PoolNext ==
    \/ \E c \in Callers : GetEnter(c)
    \/ \E c \in Callers : GetNowait(c)
    \/ \E c \in Callers : GetAssign(c)
    \/ \E c \in Callers : GetQsize(c)
    \/ \E c \in Callers : GetNoneCheck(c)
    \/ \E c \in Callers : GetReturn(c)
    \/ FillOuter
    \/ FillWait
    \/ FillStopCheck
    \/ FillClear
    \/ FillInner
    \/ FillAssign
    \/ FillPut
    \/ FillFullCheck
    \/ FillSleep
    \/ StopSet
    \/ StopWake

PoolSpec == PoolInit /\ [][PoolNext]_vars

\* a step of the refill thread
FillStep ==
    \/ FillOuter
    \/ FillWait
    \/ FillStopCheck
    \/ FillClear
    \/ FillInner
    \/ FillAssign
    \/ FillPut
    \/ FillFullCheck
    \/ FillSleep

\* the pool while nobody calls stop()
PoolLiveNext ==
    \/ \E c \in Callers : GetEnter(c)
    \/ \E c \in Callers : GetStep(c)
    \/ FillStep

\* the refill thread and a caller inside get() are running threads: none is
\* held up forever at a step it can take; nobody has to call get()
PoolLiveSpec ==
    /\ PoolInit
    /\ [][PoolLiveNext]_vars
    /\ WF_vars(FillStep)
    /\ \A c \in Callers : WF_vars(GetStep(c))

\* the pool with one caller and stop(): the refill thread keeps running and a
\* stop() call that has set the stop flag goes on to set the wake event
PoolStopNext ==
    \/ GetEnter(1)
    \/ GetStep(1)
    \/ FillStep
    \/ StopSet
    \/ StopWake

PoolStopSpec ==
    /\ PoolInit
    /\ [][PoolStopNext]_vars
    /\ WF_vars(FillStep)
    /\ WF_vars(StopWake)

(***************************************************************************)
(* db_connection: the write connection cached per thread, the read-only    *)
(* connections, and the transaction of a write block.                      *)
(***************************************************************************)
ConnFrame == UNCHANGED <<storeVars, workerVars, schedVars, retryVars, poolVars, schemaVars,
                        prefetchVars>>

\* thread t calls db_connection(write=w)
DbEnter(t, w) ==
    /\ db_pc[t] = "idle"
    /\ db_calls < MaxCalls
    /\ db_calls' = db_calls + 1
    /\ db_call' = [db_call EXCEPT ![t] = db_calls + 1]
    /\ db_write' = [db_write EXCEPT ![t] = w]
    /\ db_conn' = [db_conn EXCEPT ![t] = 0]
    /\ db_done' = [db_done EXCEPT ![db_calls + 1] = "running"]
    /\ db_pc' = [db_pc EXCEPT ![t] = IF w THEN "lookup" ELSE "connect"]
    /\ UNCHANGED <<db_state, db_origin, db_pending, db_committed, db_cache, db_wrote,
                   db_failed>>
    /\ ConnFrame

DbLookupKeepFailed(t) ==
    /\ db_pc[t] = "lookup"
    /\ IF db_cache[t] = 0
       THEN /\ db_pc' = [db_pc EXCEPT ![t] = "connect"]
            /\ UNCHANGED <<db_state, db_pending, db_cache, db_conn, db_failed>>
       ELSE IF db_state[db_cache[t]] = "open"
            THEN /\ db_conn' = [db_conn EXCEPT ![t] = db_cache[t]]
                 /\ db_pc' = [db_pc EXCEPT ![t] = "block"]
                 /\ UNCHANGED <<db_state, db_pending, db_cache, db_failed>>
            ELSE /\ db_state' = [db_state EXCEPT ![db_cache[t]] = "closed"]
                 /\ db_pending' = [db_pending EXCEPT ![db_cache[t]] = {}]
                 /\ db_failed' = db_failed \cup {db_cache[t]}
                 /\ db_conn' = [db_conn EXCEPT ![t] = db_cache[t]]
                 /\ db_pc' = [db_pc EXCEPT ![t] = "block"]
                 /\ UNCHANGED db_cache
    /\ UNCHANGED <<db_origin, db_committed, db_write, db_call, db_calls, db_wrote, db_done>>
    /\ ConnFrame

\* connection = cache.get("write"); the SELECT 1 health check; on Error close the
\* connection, connection = None and cache.pop("write")
DbLookup(t) ==
    /\ db_pc[t] = "lookup"
    /\ IF db_cache[t] = 0
       THEN /\ db_pc' = [db_pc EXCEPT ![t] = "connect"]
            /\ UNCHANGED <<db_state, db_pending, db_cache, db_conn, db_failed>>
       ELSE IF db_state[db_cache[t]] = "open"
            THEN /\ db_conn' = [db_conn EXCEPT ![t] = db_cache[t]]
                 /\ db_pc' = [db_pc EXCEPT ![t] = "block"]
                 /\ UNCHANGED <<db_state, db_pending, db_cache, db_failed>>
            ELSE /\ db_state' = [db_state EXCEPT ![db_cache[t]] = "closed"]
                 /\ db_pending' = [db_pending EXCEPT ![db_cache[t]] = {}]
                 /\ db_failed' = db_failed \cup {db_cache[t]}
                 /\ db_cache' = [db_cache EXCEPT ![t] = 0]
                 /\ db_pc' = [db_pc EXCEPT ![t] = "connect"]
                 /\ UNCHANGED db_conn
    /\ UNCHANGED <<db_origin, db_committed, db_write, db_call, db_calls, db_wrote, db_done>>
    /\ ConnFrame

\* connection = connect_pg(autocommit=not write); cache["write"] = connection for a
\* write call; then the yield
DbConnect(t) ==
    /\ db_pc[t] = "connect"
    /\ \E c \in ConnIds :
          /\ db_state[c] = "unused"
          /\ \A d \in ConnIds : d < c => db_state[d] # "unused"
          /\ db_state' = [db_state EXCEPT ![c] = "open"]
          /\ db_origin' = [db_origin EXCEPT
                             ![c] = [thread |-> t, write |-> db_write[t], call |-> db_call[t]]]
          /\ db_conn' = [db_conn EXCEPT ![t] = c]
          /\ db_cache' = IF db_write[t] THEN [db_cache EXCEPT ![t] = c] ELSE db_cache
    /\ db_pc' = [db_pc EXCEPT ![t] = "block"]
    /\ UNCHANGED <<db_pending, db_committed, db_write, db_call, db_calls, db_wrote, db_done,
                   db_failed>>
    /\ ConnFrame

\* connect_pg raises: db_connection raises before its yield
DbConnectFails(t) ==
    /\ db_pc[t] = "connect"
    /\ db_done' = [db_done EXCEPT ![db_call[t]] = "raised"]
    /\ db_pc' = [db_pc EXCEPT ![t] = "idle"]
    /\ UNCHANGED <<db_state, db_origin, db_pending, db_committed, db_cache, db_write,
                   db_conn, db_call, db_calls, db_wrote, db_failed>>
    /\ ConnFrame

\* the block of a write call changes a row on its connection
DbBlockWrite(t) ==
    /\ db_pc[t] = "block"
    /\ db_write[t]
    /\ db_state[db_conn[t]] = "open"
    /\ Cardinality(db_wrote[db_call[t]]) < 2
    /\ LET change == <<db_call[t], Cardinality(db_wrote[db_call[t]]) + 1>>
       IN  /\ db_pending' = [db_pending EXCEPT ![db_conn[t]] = @ \cup {change}]
           /\ db_wrote' = [db_wrote EXCEPT ![db_call[t]] = @ \cup {change}]
    /\ UNCHANGED <<db_state, db_origin, db_committed, db_cache, db_pc, db_write, db_conn,
                   db_call, db_calls, db_done, db_failed>>
    /\ ConnFrame

\* the block exits normally
DbBlockReturns(t) ==
    /\ db_pc[t] = "block"
    /\ db_pc' = [db_pc EXCEPT ![t] = "exit_ok"]
    /\ UNCHANGED <<db_state, db_origin, db_pending, db_committed, db_cache, db_write,
                   db_conn, db_call, db_calls, db_wrote, db_done, db_failed>>
    /\ ConnFrame

\* the block raises an Exception
DbBlockRaises(t) ==
    /\ db_pc[t] = "block"
    /\ db_pc' = [db_pc EXCEPT ![t] = "exit_raise"]
    /\ UNCHANGED <<db_state, db_origin, db_pending, db_committed, db_cache, db_write,
                   db_conn, db_call, db_calls, db_wrote, db_done, db_failed>>
    /\ ConnFrame

\* after the yield of a write call: connection.commit() succeeds
DbExitCommit(t) ==
    /\ db_pc[t] = "exit_ok"
    /\ db_write[t]
    /\ db_state[db_conn[t]] = "open"
    /\ db_committed' = db_committed \cup db_pending[db_conn[t]]
    /\ db_pending' = [db_pending EXCEPT ![db_conn[t]] = {}]
    /\ db_done' = [db_done EXCEPT ![db_call[t]] = "returned"]
    /\ db_pc' = [db_pc EXCEPT ![t] = "idle"]
    /\ UNCHANGED <<db_state, db_origin, db_cache, db_write, db_conn, db_call, db_calls,
                   db_wrote, db_failed>>
    /\ ConnFrame

\* after the yield of a write call: connection.commit() raises Error; rollback, raise,
\* the rollback of the outer handler, raise
DbExitCommitFails(t) ==
    /\ db_pc[t] = "exit_ok"
    /\ db_write[t]
    /\ db_pending' = [db_pending EXCEPT ![db_conn[t]] = {}]
    /\ db_done' = [db_done EXCEPT ![db_call[t]] = "raised"]
    /\ db_pc' = [db_pc EXCEPT ![t] = "idle"]
    /\ UNCHANGED <<db_state, db_origin, db_committed, db_cache, db_write, db_conn, db_call,
                   db_calls, db_wrote, db_failed>>
    /\ ConnFrame

DbExitRollbackNone(t) ==
    /\ db_pc[t] = "exit_raise"
    /\ db_write[t]
    /\ db_done' = [db_done EXCEPT ![db_call[t]] = "raised"]
    /\ db_pc' = [db_pc EXCEPT ![t] = "idle"]
    /\ UNCHANGED <<db_state, db_origin, db_pending, db_committed, db_cache, db_write,
                   db_conn, db_call, db_calls, db_wrote, db_failed>>
    /\ ConnFrame

\* except Exception of a write call: connection.rollback(), an Error of it swallowed; raise
DbExitRollback(t) ==
    /\ db_pc[t] = "exit_raise"
    /\ db_write[t]
    /\ db_pending' = [db_pending EXCEPT ![db_conn[t]] = {}]
    /\ db_done' = [db_done EXCEPT ![db_call[t]] = "raised"]
    /\ db_pc' = [db_pc EXCEPT ![t] = "idle"]
    /\ UNCHANGED <<db_state, db_origin, db_committed, db_cache, db_write, db_conn, db_call,
                   db_calls, db_wrote, db_failed>>
    /\ ConnFrame

DbExitCloseOnSuccessOnly(t) ==
    /\ db_pc[t] \in {"exit_ok", "exit_raise"}
    /\ ~db_write[t]
    /\ db_state' = IF db_pc[t] = "exit_ok"
                   THEN [db_state EXCEPT ![db_conn[t]] = "closed"]
                   ELSE db_state
    /\ db_done' = [db_done EXCEPT
                     ![db_call[t]] = IF db_pc[t] = "exit_ok" THEN "returned" ELSE "raised"]
    /\ db_pc' = [db_pc EXCEPT ![t] = "idle"]
    /\ UNCHANGED <<db_origin, db_pending, db_committed, db_cache, db_write, db_conn, db_call,
                   db_calls, db_wrote, db_failed>>
    /\ ConnFrame

\* finally of a read-only call: connection.close(), an Error of it swallowed
DbExitClose(t) ==
    /\ db_pc[t] \in {"exit_ok", "exit_raise"}
    /\ ~db_write[t]
    /\ db_state' = [db_state EXCEPT ![db_conn[t]] = "closed"]
    /\ db_done' = [db_done EXCEPT
                     ![db_call[t]] = IF db_pc[t] = "exit_ok" THEN "returned" ELSE "raised"]
    /\ db_pc' = [db_pc EXCEPT ![t] = "idle"]
    /\ UNCHANGED <<db_origin, db_pending, db_committed, db_cache, db_write, db_conn, db_call,
                   db_calls, db_wrote, db_failed>>
    /\ ConnFrame

\* close_cached_connections() of thread t, outside of a db_connection block
close_cached_connections(t) ==
    /\ db_pc[t] = "idle"
    /\ db_cache[t] # 0
    /\ db_state' = [db_state EXCEPT ![db_cache[t]] = "closed"]
    /\ db_pending' = [db_pending EXCEPT ![db_cache[t]] = {}]
    /\ db_cache' = [db_cache EXCEPT ![t] = 0]
    /\ UNCHANGED <<db_origin, db_committed, db_pc, db_write, db_conn, db_call, db_calls,
                   db_wrote, db_done, db_failed>>
    /\ ConnFrame

\* the server end of an open connection goes away; its open transaction is aborted
ConnBreaks(c) ==
    /\ db_state[c] = "open"
    /\ db_state' = [db_state EXCEPT ![c] = "broken"]
    /\ db_pending' = [db_pending EXCEPT ![c] = {}]
    /\ UNCHANGED <<db_origin, db_committed, db_cache, db_pc, db_write, db_conn, db_call,
                   db_calls, db_wrote, db_done, db_failed>>
    /\ ConnFrame

ConnInit == StoreInit /\ legacy_db = NoRow /\ WorkerIdle /\ SideIdle

ConnNext ==
    \/ \E t \in DbThreads, w \in BOOLEAN : DbEnter(t, w)
    \/ \E t \in DbThreads : DbLookup(t)
    \/ \E t \in DbThreads : DbConnect(t)
    \/ \E t \in DbThreads : DbConnectFails(t)
    \/ \E t \in DbThreads : DbBlockWrite(t)
    \/ \E t \in DbThreads : DbBlockReturns(t)
    \/ \E t \in DbThreads : DbBlockRaises(t)
    \/ \E t \in DbThreads : DbExitCommit(t)
    \/ \E t \in DbThreads : DbExitCommitFails(t)
    \/ \E t \in DbThreads : DbExitRollback(t)
    \/ \E t \in DbThreads : DbExitClose(t)
    \/ \E t \in DbThreads : close_cached_connections(t)
    \/ \E c \in ConnIds : ConnBreaks(c)

ConnSpec == ConnInit /\ [][ConnNext]_vars

(***************************************************************************)
(* ensure_schema_exists as the threads of one process call it.             *)
(***************************************************************************)
SchemaFrame == UNCHANGED <<storeVars, workerVars, schedVars, retryVars, poolVars, connVars,
                          prefetchVars>>

\* the statements of the with block, in order
InitSteps == <<"ensure_schema", "ensure_indexes", "maybe_convert_sqlite", "commit">>

\* thread t calls ensure_schema_exists
InitEnter(t) ==
    /\ init_pc[t] = "idle"
    /\ init_calls < MaxInitCalls
    /\ init_calls' = init_calls + 1
    /\ init_pc' = [init_pc EXCEPT ![t] = "test"]
    /\ UNCHANGED <<schema_initialized, init_started, init_completed, init_failed>>
    /\ SchemaFrame

\* if _SCHEMA_INITIALIZED: return; else open the connection of the with block
InitTest(t) ==
    /\ init_pc[t] = "test"
    /\ IF schema_initialized
       THEN /\ init_pc' = [init_pc EXCEPT ![t] = "idle"]
            /\ UNCHANGED init_started
       ELSE /\ init_pc' = [init_pc EXCEPT ![t] = InitSteps[1]]
            /\ init_started' = init_started + 1
    /\ UNCHANGED <<schema_initialized, init_calls, init_completed, init_failed>>
    /\ SchemaFrame

\* one statement of the with block returns
InitStep(t) ==
    /\ \E i \in 1..Len(InitSteps) :
          /\ init_pc[t] = InitSteps[i]
          /\ init_pc' = [init_pc EXCEPT
                           ![t] = IF i < Len(InitSteps) THEN InitSteps[i + 1] ELSE "set_flag"]
          /\ init_completed' = IF i = Len(InitSteps) THEN init_completed + 1
                               ELSE init_completed
    /\ UNCHANGED <<schema_initialized, init_calls, init_started, init_failed>>
    /\ SchemaFrame

\* one statement of the with block raises: the call raises, the flag is not touched
InitRaises(t) ==
    /\ \E i \in 1..Len(InitSteps) : init_pc[t] = InitSteps[i]
    /\ init_pc' = [init_pc EXCEPT ![t] = "idle"]
    /\ init_failed' = init_failed + 1
    /\ UNCHANGED <<schema_initialized, init_calls, init_started, init_completed>>
    /\ SchemaFrame

\* _SCHEMA_INITIALIZED = True
InitSetFlag(t) ==
    /\ init_pc[t] = "set_flag"
    /\ schema_initialized' = TRUE
    /\ init_pc' = [init_pc EXCEPT ![t] = "idle"]
    /\ UNCHANGED <<init_calls, init_started, init_completed, init_failed>>
    /\ SchemaFrame

SchemaInit == StoreInit /\ legacy_db = NoRow /\ WorkerIdle /\ SideIdle

SchemaNext ==
    \/ \E t \in DbThreads : InitEnter(t)
    \/ \E t \in DbThreads : InitTest(t)
    \/ \E t \in DbThreads : InitStep(t)
    \/ \E t \in DbThreads : InitRaises(t)
    \/ \E t \in DbThreads : InitSetFlag(t)

SchemaSpec == SchemaInit /\ [][SchemaNext]_vars

(***************************************************************************)
(* TaskPool over the store: the tasks of the prefetch buffer are claimed   *)
(* rows of the player table, and the reaper runs beside the pool.          *)
(***************************************************************************)
PrefetchFrame == UNCHANGED <<workerVars, schedVars, retryVars, poolVars, connVars, schemaVars>>

\* _fill_loop, one pass of its inner loop: task = assign_next_task(); put(task)
pool_fill ==
    /\ Len(pf_queue) < MaxPoolSize
    /\ NextTask(players) # NoNextTask
    /\ players' = Claim(players, NextTask(players), now)
    /\ grants' = Granted(grants, NextTask(players))
    /\ pf_queue' = Append(pf_queue, NextTask(players))
    /\ last' = [op |-> "assign", id |-> NextTask(players).id, kind |-> NextTask(players).kind]
    /\ UNCHANGED <<hero_stats, best, now, legacy_db, history, pf_held>>
    /\ PrefetchFrame

\* TaskPool.get() of a caller that holds no task: get_nowait(), or assign_next_task()
\* on an empty buffer
pool_get(c) ==
    /\ pf_held[c] = NoNextTask
    /\ IF pf_queue # <<>>
       THEN /\ pf_held' = [pf_held EXCEPT ![c] = Head(pf_queue)]
            /\ pf_queue' = Tail(pf_queue)
            /\ last' = [op |-> "get", id |-> Head(pf_queue).id, kind |-> Head(pf_queue).kind]
            /\ UNCHANGED <<players, grants>>
       ELSE /\ pf_held' = [pf_held EXCEPT ![c] = NextTask(players)]
            /\ players' = Claim(players, NextTask(players), now)
            /\ grants' = Granted(grants, NextTask(players))
            /\ last' = [op |-> "assign", id |-> NextTask(players).id,
                        kind |-> NextTask(players).kind]
            /\ UNCHANGED pf_queue
    /\ UNCHANGED <<hero_stats, best, now, legacy_db, history>>
    /\ PrefetchFrame

\* the caller submits the result of the task it holds: the row is marked and its
\* lease released
pool_submit(c) ==
    /\ pf_held[c] # NoNextTask
    /\ players' = IF pf_held[c].kind = "discover"
                  THEN MarkDiscoverDone(players, pf_held[c].id)
                  ELSE CompleteFetch(players, pf_held[c].id, now)
    /\ grants' = ZeroGrants(grants, {pf_held[c].id})
    /\ pf_held' = [pf_held EXCEPT ![c] = NoNextTask]
    /\ last' = [op |-> "submit_" \o pf_held[c].kind, id |-> pf_held[c].id]
    /\ UNCHANGED <<hero_stats, best, now, legacy_db, history, pf_queue>>
    /\ PrefetchFrame

\* a store seeded with the players 1..MaxPlayerId beside the seed of ensure_schema
PrefetchInit ==
    /\ players = SeedRange(ensure_schema([id \in PlayerIds |-> NoRow]), 1, MaxPlayerId)
    /\ hero_stats = [k \in PlayerIds \X HeroInputs |-> NoRow]
    /\ best = [h \in HeroInputs |-> NoRow]
    /\ now = 0
    /\ legacy_db = NoRow
    /\ grants = [id \in PlayerIds |-> 0]
    /\ history = <<>>
    /\ last = [op |-> "schema", id |-> NoTaskId]
    /\ WorkerIdle
    /\ SideIdle

PrefetchNext ==
    \/ pool_fill
    \/ \E c \in Callers : pool_get(c)
    \/ \E c \in Callers : pool_submit(c)
    \/ release_incomplete_assignments(MaxAgeMinutes)
    \/ Tick

PrefetchSpec == PrefetchInit /\ [][PrefetchNext]_vars

AggInit ==
    /\ players = SeedRange([id \in PlayerIds |-> NoRow], 1, MaxPlayerId)
    /\ hero_stats = [k \in PlayerIds \X HeroInputs |-> NoRow]
    /\ best = [h \in HeroInputs |-> NoRow]
    /\ now = 0
    /\ legacy_db = NoRow
    /\ grants = [id \in PlayerIds |-> 0]
    /\ history = <<>>
    /\ last = [op |-> "seed", id |-> NoTaskId, start |-> 1, end |-> MaxPlayerId]
    /\ WorkerIdle
    /\ SideIdle

AggNext ==
    \E pid \in PlayerIds, heroes \in HeroLists : submit(pid, heroes)

AggSpec == AggInit /\ [][AggNext]_vars

WorkerSpecInit == StoreInit /\ legacy_db = NoRow /\ WorkerInit /\ SideIdle

WorkerSpec == WorkerSpecInit /\ [][WorkerNext]_vars

\* a step of the worker thread: every step of the loop but the setting of the stop event
WorkerStep ==
    \/ LoopHead
    \/ \E t \in ServerTasks \cup {NoTask} : FetchTaskReturns(t)
    \/ FetchTaskFails
    \/ AfterFetch
    \/ Dispatch
    \/ QueryReturns
    \/ \E h \in RetryHints : QueryRateLimited(h)
    \/ QueryFails
    \/ QueryErrors
    \/ \E t \in ServerTasks \cup {NoTask} : SubmitReturns(t)
    \/ SubmitFails
    \/ WaitPoll
    \/ WaitWake
    \/ WaitReturns

\* the worker loop whose thread keeps running and whose HTTP calls and sleeps return
WorkerLiveSpec == WorkerSpecInit /\ [][WorkerNext]_vars /\ WF_vars(WorkerStep)

(***************************************************************************)
(* History operators of the aggregate tables.                              *)
(***************************************************************************)
\* the positions of history that submitted hero h
HeroEntries(h) ==
    {i \in 1..Len(history) : history[i].hero_id = h}

\* the positions of history that submitted hero h for player pid
KeyEntries(pid, h) ==
    {i \in HeroEntries(h) : history[i].player_id = pid}

\* the first position among those of hero h that carries the largest count
FirstMaxEntry(h) ==
    CHOOSE i \in HeroEntries(h) :
        /\ \A j \in HeroEntries(h) : history[j].games <= history[i].games
        /\ \A j \in HeroEntries(h) : history[j].games = history[i].games => i <= j

\* the last position that submitted hero h for player pid
LastEntry(pid, h) ==
    CHOOSE i \in KeyEntries(pid, h) : \A j \in KeyEntries(pid, h) : j <= i

(***************************************************************************)
(* Claims.                                                                 *)
(***************************************************************************)

\* C1: no node id is returned by /task to a second caller while the lease of an
\* earlier answer naming it is outstanding (not completed, reset or reaped).
C1_MutualExclusion ==
    \A id \in PlayerIds : grants[id] <= 1

\* C1 witness: a /task call was answered while another node's lease was outstanding.
C1_Witness ==
    /\ last.op = "task"
    /\ \E id \in PlayerIds : grants[id] = 1 /\ last.id # id

\* C2: a lease on an unfinished node that is younger than max_age survives every
\* step other than its own completion or reset; a reaper run on a lease of age
\* max_age or more makes the node claimable; a claim stamps the lease with the
\* current time.
C2_LeaseReclamation ==
    [][/\ \A id \in PlayerIds :
             (/\ players[id] # NoRow
              /\ players[id].assigned_to # NULLTEXT
              /\ players[id].assigned_at # NULL
              /\ ~players[id].hero_done
              /\ ~(last'.op \in {"submit", "reset", "complete_discover"} /\ last'.id = id))
             => /\ (now - players[id].assigned_at < MaxAgeMinutes)
                      => players'[id].assigned_to # NULLTEXT
                /\ (now - players[id].assigned_at >= MaxAgeMinutes
                      /\ last'.op \in {"reap", "reap_sqlite"})
                      => FetchEligible(players', id)
       /\ \A id \in PlayerIds :
             (last'.op = "task" /\ last'.id = id)
             => (players'[id].assigned_to # NULLTEXT /\ players'[id].assigned_at = now)
      ]_vars

\* C3: when the worker loop has exited on a stop request, no task it obtained is
\* left neither submitted nor reset.
C3_StopExitResets ==
    (w_pc = "stopped") => (unreturned = NoTask)

\* C4: while the worker loop runs, a task it obtained and has neither submitted
\* nor reset is still the task it holds.
C4_NoSilentDrop ==
    (w_pc \notin {"stopped", "limit"} /\ unreturned # NoTask) => (w_task = unreturned)

\* C5: no step removes a node or turns its fetch_done or discover_done from true
\* to false.
C5_MonotonicProgress ==
    [][\A id \in PlayerIds :
          players[id] # NoRow
          => /\ players'[id] # NoRow
             /\ players[id].hero_done => players'[id].hero_done
             /\ players[id].discover_done => players'[id].discover_done
      ]_vars

\* C5 witness: a node with both flags set has since been through another operation.
C5_Witness ==
    \E id \in PlayerIds :
        /\ players[id] # NoRow
        /\ players[id].hero_done
        /\ players[id].discover_done
        /\ last.op \in {"submit", "reset", "reap", "reap_sqlite", "schema", "seed", "task"}

\* C6: no step lowers the count stored in a category's leaderboard entry or
\* removes the entry.
C6_LeaderboardMonotone ==
    [][\A h \in HeroInputs :
          best[h] # NoRow => (best'[h] # NoRow /\ best'[h].matches >= best[h].matches)
      ]_vars

\* C6 witness: a count lower than an earlier one was submitted for the same category.
C6_Witness ==
    \E i, j \in 1..Len(history) :
        /\ i < j
        /\ history[i].hero_id = history[j].hero_id
        /\ history[i].hero_id \in HEROES
        /\ history[j].games < history[i].games
        /\ best[history[i].hero_id] # NoRow

\* C7: the leaderboard entry of a known category holds the largest count
\* submitted and the node and success_count of the first submission of that count.
C7_BestIsFirstMax ==
    \A h \in KnownHeroInputs :
        IF HeroEntries(h) = {}
        THEN best[h] = NoRow
        ELSE best[h] = [player_id |-> history[FirstMaxEntry(h)].player_id,
                        matches |-> history[FirstMaxEntry(h)].games,
                        wins |-> history[FirstMaxEntry(h)].wins]

\* C7 witness: a later submission by another node tied the stored count.
C7_Witness ==
    \E h \in KnownHeroInputs : \E i, j \in HeroEntries(h) :
        /\ i = FirstMaxEntry(h)
        /\ i < j
        /\ history[j].games = history[i].games
        /\ history[j].player_id # history[i].player_id
        /\ history[j].wins # history[i].wins

\* C8: the hero_stats row of a node and known category holds the count and
\* success_count of the latest submission for that key.
C8_StatIsLastWrite ==
    \A pid \in PlayerIds, h \in KnownHeroInputs :
        IF KeyEntries(pid, h) = {}
        THEN hero_stats[<<pid, h>>] = NoRow
        ELSE hero_stats[<<pid, h>>] = [matches |-> history[LastEntry(pid, h)].games,
                                      wins |-> history[LastEntry(pid, h)].wins]

\* C8 witness: a key was submitted twice, the second time with a lower count that
\* left the leaderboard unchanged.
C8_Witness ==
    \E pid \in PlayerIds, h \in KnownHeroInputs : \E i, j \in KeyEntries(pid, h) :
        /\ i < j
        /\ history[j].games < history[i].games
        /\ best[h].matches = history[i].games

\* C9: every node has assigned_to and assigned_at both null or both set.
C9_LeaseFieldsTogether ==
    \A id \in PlayerIds :
        players[id] # NoRow
        => ((players[id].assigned_to = NULLTEXT) <=> (players[id].assigned_at = NULL))

\* C9 witness: a reaper has run and left a young lease in place.
C9_Witness ==
    /\ last.op = "reap"
    /\ \E id \in PlayerIds :
          /\ players[id] # NoRow
          /\ players[id].assigned_to # NULLTEXT
          /\ players[id].assigned_at # NULL

\* C10: after a submit for a node, the node is marked done and its lease is
\* released: assigned_to and assigned_at are null.
C10_SubmitReleasesLease ==
    (last.op = "submit" /\ players[last.id] # NoRow)
    => /\ players[last.id].hero_done
       /\ players[last.id].assigned_to = NULLTEXT
       /\ players[last.id].assigned_at = NULL

C16_SeedIdempotent ==
    [][/\ (last'.op = "seed")
          => /\ \A id \in PlayerIds : players[id] # NoRow => players'[id] = players[id]
             /\ \A id \in PlayerIds :
                   (players[id] = NoRow /\ (id < last'.start \/ id > last'.end))
                   => players'[id] = NoRow
             /\ \A id \in last'.start..last'.end : players'[id] # NoRow
             /\ SeedRange(players', last'.start, last'.end) = players'
       /\ (last'.op = "schema")
          => /\ \A id \in PlayerIds : players[id] # NoRow => players'[id] = players[id]
             /\ players'[INITIAL_PLAYER_ID] # NoRow
             /\ ensure_schema(players') = players'
      ]_vars

\* C16 witness: a seed has run over a node that was leased or finished.
C16_Witness ==
    /\ last.op = "seed"
    /\ \E id \in last.start..last.end :
          players[id] # NoRow /\ players[id] # NewPlayerRow(NULL)

\* C17: running the reaper a second time right after a run clears no row and
\* leaves the state of the first run, and a run over nodes without a lease
\* changes nothing.
C17_ReaperIdempotent ==
    LET once == ClearLeases(players, ReapedIds(players, now, MaxAgeMinutes))
    IN  /\ ReapedIds(once, now, MaxAgeMinutes) = {}
        /\ ClearLeases(once, ReapedIds(once, now, MaxAgeMinutes)) = once
        /\ (\A id \in PlayerIds : players[id] # NoRow => players[id].assigned_to = NULLTEXT)
              => once = players
        /\ (last.op = "reap") => ReapedIds(players, now, MaxAgeMinutes) = {}

\* C17 witness: a reaper run has cleared a lease.
C17_Witness ==
    last.op = "reap" /\ last.rowcount > 0

\* C12: a claim answers with a fetch task when a node with fetch_done false and
\* no lease exists, otherwise with a refresh task when a node with fetch_done
\* true and no lease exists, otherwise with a discover task when a node with
\* fetch_done true, discover_done false and no lease exists, otherwise with none.
C12_ClaimPriority ==
    [][(last'.op = "assign")
       => LET fetch == {id \in PlayerIds : players[id] # NoRow /\ ~players[id].hero_done
                                             /\ players[id].assigned_to = NULLTEXT}
              refresh == {id \in PlayerIds : players[id] # NoRow /\ players[id].hero_done
                                               /\ players[id].assigned_to = NULLTEXT}
              discover == {id \in refresh : ~players[id].discover_done}
          IN  /\ fetch # {} => (last'.kind = "fetch" /\ last'.id \in fetch)
              /\ (fetch = {} /\ refresh # {})
                    => (last'.kind = "refresh" /\ last'.id \in refresh)
              /\ (fetch = {} /\ refresh = {} /\ discover # {})
                    => (last'.kind = "discover" /\ last'.id \in discover)
              /\ (fetch = {} /\ refresh = {} /\ discover = {})
                    => (last'.kind = "none" /\ last'.id = NoTaskId /\ players' = players)
              /\ last'.kind # "none" => players'[last'.id].assigned_to # NULLTEXT
      ]_vars

\* C12 witness: a claim was answered with a refresh task.
C12_Witness ==
    last.op = "assign" /\ last.kind = "refresh"

C14_DepthSetOnce ==
    \A id \in PlayerIds :
        /\ born[id] # NULL => (players[id] # NoRow /\ players[id].depth = born[id])
        /\ (born[id] = NULL /\ players[id] # NoRow) => players[id].depth = 0

\* C14 witness: a node a discovery inserted was named again by a discovery of
\* another parent depth.
C14_Witness ==
    /\ last.op = "submit_discover"
    /\ \E id \in last.known : born[id] # NULL /\ born[id] # last.depth + 1

\* C15: the seen_count of a node is the sum of the observation counts of the
\* discoveries that named it, and a node never named has seen_count 0.
C15_SeenCountIsSum ==
    \A id \in PlayerIds :
        /\ players[id] # NoRow => players[id].seen_count = observed[id]
        /\ players[id] = NoRow => observed[id] = 0

\* C15 witness: a node a discovery inserted was named again by a later discovery.
C15_Witness ==
    /\ last.op = "submit_discover"
    /\ \E id \in last.known : born[id] # NULL /\ observed[id] >= 2

\* C18: a call goes on after an attempt only when the attempt ended with a
\* deadlock, a serialization failure or an unavailable lock, and then after one
\* sleep of retry_interval; it returns on the first attempt that succeeds; it
\* raises the first other error, at once, and never one of the three conflicts.
C18_RetryTransientOnly ==
    LET conflicts == {"DeadlockDetected", "SerializationFailure", "LockNotAvailable"}
        n == Len(r_outcomes)
        earlier == {r_outcomes[i] : i \in 1..(n - 1)}
    IN  /\ n > 0 => earlier \subseteq conflicts
        /\ r_pc = "returned" <=> (n > 0 /\ r_outcomes[n] = "ok")
        /\ r_pc = "raised" <=> (n > 0 /\ r_outcomes[n] \notin conflicts \cup {"ok"})
        /\ r_pc = "raised" => r_raised = r_outcomes[n]
        /\ r_pc # "raised" => r_raised = "none"
        /\ r_pc = "sleep" <=> (n > 0 /\ r_outcomes[n] \in conflicts /\ Len(r_slept) = n - 1)
        /\ r_pc = "execute" => Len(r_slept) = n
        /\ \A i \in 1..Len(r_slept) : r_slept[i] = r_interval

\* C18 witness: a call returned after two conflicts, each followed by a sleep.
C18_Witness ==
    /\ r_pc = "returned"
    /\ Len(r_outcomes) = 3
    /\ Len(r_slept) = 2

\* C19: a caller inside get() can always take its next step, whatever the
\* refill thread does; a get() that found the buffer non-empty returns the task
\* that was at its head and calls assign_next_task not at all; a get() that
\* found it empty returns what its one assign_next_task call answered.
C19_GetNeverWaits ==
    \A c \in Callers :
        /\ get_pc[c] # "idle" => ENABLED GetStep(c)
        /\ get_pc[c] = "qsize" => get_src[c] = "buffer"
        /\ get_pc[c] = "assign" => get_src[c] = "none" /\ get_calls[c] = 0
        /\ get_src[c] = "buffer" =>
              /\ get_head[c] # NoTaskId
              /\ get_task[c] = get_head[c]
              /\ get_calls[c] = 0
        /\ get_src[c] = "direct" =>
              /\ get_head[c] = NoTaskId
              /\ get_calls[c] = 1
              /\ get_task[c] \in TaskIds \cup {NoTaskId}
        /\ get_pc[c] = "return" => get_src[c] \in {"buffer", "direct"}

\* C19 witness: one get() is returning a buffered task while another is
\* returning the task of its own assign_next_task call.
C19_Witness ==
    \E c, d \in Callers :
        /\ get_pc[c] = "return" /\ get_src[c] = "buffer"
        /\ get_pc[d] = "return" /\ get_src[d] = "direct" /\ get_task[d] # NoTaskId

\* C20: the buffer never holds more than max_size tasks, and no task is
\* returned by more than one get(): a task is in the buffer once at most, is
\* not in the buffer while a caller holds it or after a get() returned it, and
\* is held by one caller at most.
C20_BufferBounded ==
    /\ Len(pool_queue) <= max_size
    /\ \A t \in TaskIds :
          Cardinality({i \in 1..Len(pool_queue) : pool_queue[i] = t})
            + Cardinality({c \in Callers : get_task[c] = t})
            + delivered[t] <= 1

\* C20 witness: the refill thread has filled the buffer again, up to a
\* capacity of two or more, while a get() is returning a task it took from it.
C20_Witness ==
    /\ max_size >= 2
    /\ Len(pool_queue) = max_size
    /\ \E c \in Callers :
          get_pc[c] = "return" /\ get_src[c] = "buffer" /\ get_task[c] \in TaskIds

\* C21: the worker loop starts with a backoff of 1000 ms, and in every state
\* the backoff and the wait in progress are between 0 and 86,400,000 ms.
C21_BackoffBounded ==
    /\ backoff_ms = 1000
    /\ [](/\ 0 <= backoff_ms /\ backoff_ms <= 86400000
          /\ 0 <= wait_ms /\ wait_ms <= 86400000)

\* C21 witness: a backoff at the ceiling went through a rate-limit wait without
\* a hint and its growth, and is still at the ceiling.
C21_Witness ==
    /\ w_pc = "loop"
    /\ w_last.event = "rate_limit"
    /\ w_last.hint = NULL
    /\ w_last.before = 86400000
    /\ w_last.waited = 86400000
    /\ backoff_ms = 86400000

\* C22: with max_requests set, no more than max_requests tasks are completed;
\* every step lowers the remaining budget by the number of tasks it completes,
\* one or none; and the step that brings the budget to zero ends the loop with
\* the follow-up task of its submit reset.
C22_BudgetPerCompletedTask ==
    /\ [](max_requests # NULL => completed_tasks <= max_requests)
    /\ [][max_requests # NULL =>
            /\ completed_tasks' - completed_tasks \in {0, 1}
            /\ requests_remaining' = requests_remaining - (completed_tasks' - completed_tasks)
            /\ (requests_remaining' = 0 /\ completed_tasks' # completed_tasks)
                 => (w_pc' = "limit" /\ unreturned' = NoTask)
       ]_vars

\* C23: a submission that holds a tuple of a hero id outside the static table
\* leaves every hero_stats row and best row of such an id absent; each key its
\* other tuples name holds the count and wins of the last of them, each
\* leaderboard entry they name holds the larger of its old count and their
\* counts, every other row is as before, and the node is marked done.
C23_UnknownCategoryDiscarded ==
    [][LET n == Len(history)
           new == {i \in (n + 1)..Len(history') : TRUE}
           unknown == {i \in new : history'[i].hero_id \notin (1..23) \cup (25..114)
                          \cup {119, 120, 121, 123, 126, 128, 129, 131, 135, 136, 137, 138, 145}}
           known == new \ unknown
           pid == last'.id
           named(k) == {i \in known : history'[i].player_id = k[1] /\ history'[i].hero_id = k[2]}
           namedHero(h) == {i \in known : history'[i].hero_id = h}
           top(S) == CHOOSE i \in S : \A j \in S : j <= i
           most(S) == CHOOSE g \in {history'[i].games : i \in S} :
                          \A i \in S : history'[i].games <= g
       IN  (last'.op = "submit" /\ unknown # {}) =>
             /\ \A i \in unknown :
                   /\ hero_stats'[<<pid, history'[i].hero_id>>] = NoRow
                   /\ best'[history'[i].hero_id] = NoRow
             /\ \A k \in DOMAIN hero_stats :
                   IF named(k) = {}
                   THEN hero_stats'[k] = hero_stats[k]
                   ELSE hero_stats'[k] = [matches |-> history'[top(named(k))].games,
                                         wins |-> history'[top(named(k))].wins]
             /\ \A h \in DOMAIN best :
                   IF namedHero(h) = {}
                   THEN best'[h] = best[h]
                   ELSE /\ best'[h] # NoRow
                        /\ best'[h].matches =
                             IF best[h] = NoRow THEN most(namedHero(h))
                             ELSE Max(best[h].matches, most(namedHero(h)))
             /\ players'[pid] # NoRow => players'[pid].hero_done
      ]_vars

\* C23 witness: a submission of a known and an unknown hero id was recorded:
\* the known one has its rows, the unknown one has none.
C23_Witness ==
    /\ Len(history) = 2
    /\ last.op = "submit"
    /\ \E i, j \in 1..2 :
          /\ history[i].hero_id \notin HEROES
          /\ history[j].hero_id \in HEROES
          /\ hero_stats[<<last.id, history[j].hero_id>>] # NoRow
          /\ best[history[j].hero_id] # NoRow
          /\ hero_stats[<<last.id, history[i].hero_id>>] = NoRow

\* C26: after the wait of a rate-limit response with a retry hint, the wait was
\* the hinted duration and the backoff is the one held before the response.
C26_HintKeepsBackoff ==
    (w_pc = "loop" /\ w_last.event = "rate_limit" /\ w_last.hint # NULL)
    => (w_last.waited = w_last.hint /\ backoff_ms = w_last.before)

\* C27: after the wait of a rate-limit response without a retry hint, the wait
\* was the backoff held before the response and the backoff is that value times
\* 1.2, rounded up to a whole millisecond, or 86,400,000 ms if that is less.
C27_NoHintGrowsBackoff ==
    (w_pc = "loop" /\ w_last.event = "rate_limit" /\ w_last.hint = NULL)
    => /\ w_last.waited = w_last.before
       /\ backoff_ms = Min((w_last.before * 12 + 9) \div 10, 86400000)

\* C28: after the wait of a network failure, the task held at the failure is
\* reset, the wait was the backoff held before the failure, raised to 1000 ms
\* and capped at 86,400,000 ms, and the backoff is the value held before the
\* failure times 1.2, rounded up, or 86,400,000 ms if that is less.
C28_NetworkFailureBackoff ==
    (w_pc = "loop" /\ w_last.event = "network")
    => /\ w_task = NoTask
       /\ w_last.held # NoTask => unreturned = NoTask
       /\ w_last.waited = Min(Max(w_last.before, 1000), 86400000)
       /\ backoff_ms = Min((w_last.before * 12 + 9) \div 10, 86400000)

\* C29: after the wait of any other failure, the wait was the backoff held
\* before the failure, raised to 5000 ms and capped at 86,400,000 ms, and the
\* backoff is the value held before the failure times 1.2, rounded up, or
\* 86,400,000 ms if that is less.
C29_OtherFailureBackoff ==
    (w_pc = "loop" /\ w_last.event = "error")
    => /\ w_last.waited = Min(Max(w_last.before, 5000), 86400000)
       /\ backoff_ms = Min((w_last.before * 12 + 9) \div 10, 86400000)

\* C30: once a task is completed and the request budget is not used up, the
\* backoff is 10,000 ms until the next pass of the loop.
C30_SuccessResetsBackoff ==
    (w_last.event = "completed" /\ w_pc # "limit") => backoff_ms = 10000

\* C30 witness: a task was completed while the backoff was above 10,000 ms.
C30_Witness ==
    /\ w_last.event = "completed"
    /\ w_pc # "limit"
    /\ w_last.before > 10000
    /\ backoff_ms = 10000

\* C24: a get() that has left the buffer at or below the refill threshold or
\* has found it empty, and likewise the refill
\* loop leaving its filling with the buffer not full, is followed by an
\* assign_next_task call of the refill loop, unless the buffer is full again
\* by then; and the loop leaves its filling only with the buffer full or on an
\* answer of no task.
C24_RefillEventuallyRuns ==
    /\ ((/\ Len(pool_queue) < max_size
         /\ \/ fill_pc = "full_check"
            \/ \E c \in Callers :
                  /\ get_pc[c] \in {"assign", "qsize"}
                  /\ Len(pool_queue) <= refill_threshold(max_size))
        ~> (fill_pc = "assign" \/ Len(pool_queue) >= max_size))
    /\ [][(fill_pc \in {"inner", "assign", "put"} /\ fill_pc' = "full_check")
            => \/ Len(pool_queue) >= max_size
               \/ (fill_pc = "assign" /\ issued' = issued)
         ]_vars

\* C24 witness: a get() found the buffer empty and got no task from its own
\* call while the refill loop, back from an answer of no task, is in its retry
\* sleep.
C24_Witness ==
    /\ fill_pc = "sleep"
    /\ ~pool_stop_event
    /\ pool_queue = <<>>
    /\ \E c \in Callers :
          get_pc[c] = "none_check" /\ get_src[c] = "direct" /\ get_task[c] = NoTaskId

\* C25: the refill loop calls assign_next_task only if, since it last found
\* the buffer full and went back to its wait, a get() has brought the buffer
\* down to the refill threshold or below.
C25_NoCallAboveThreshold ==
    fill_pc = "assign" => low_since_full

\* C31: when a task request has returned no task and the worker is not stopped,
\* its next step sets the backoff to 60,000 ms and starts a wait of 60,000 ms;
\* during that wait it holds no task, and the wait ends only by going back to
\* the head of the loop, from where the next task request is made.
C31_NoTaskWaitsSixtySeconds ==
    /\ [](after_wait = "no_task"
            => /\ w_pc = "wait"
               /\ wait_ms = 60000
               /\ backoff_ms = 60000
               /\ w_task = NoTask)
    /\ [][/\ (w_pc = "fetched" /\ w_task = NoTask /\ w_pc' # w_pc)
             => \/ stop_event /\ w_pc' = "stopped"
                \/ ~stop_event /\ after_wait' = "no_task"
          /\ (w_pc = "wait" /\ w_pc' # w_pc) => w_pc' = "loop"
          /\ (w_pc # "fetch_task" /\ w_pc' = "fetch_task") => w_pc = "loop"
         ]_vars

\* C31 witness: the 60,000 ms wait after an answer of no task is in progress
\* and the worker is not stopped.
C31_Witness ==
    /\ after_wait = "no_task"
    /\ w_pc = "wait"
    /\ wait_ms = 60000
    /\ ~stop_event

\* C32: a task with a malformed node id or an unknown kind never reaches the
\* query or the submission; the step that handles it leaves the counters of
\* completed tasks and of the budget alone, and after it the task is reset, the
\* worker holds no task, the backoff is 1,000 ms and the worker is at the head
\* of its loop.
C32_InvalidTaskDiscarded ==
    /\ [](/\ w_pc \in {"query", "submit"}
             => w_task \notin {MalformedTask, UnknownTypeTask, NoTask}
          /\ w_last.event = "invalid"
             => /\ w_last.held \in {MalformedTask, UnknownTypeTask}
                /\ w_pc = "loop"
                /\ w_task = NoTask
                /\ unreturned = NoTask
                /\ backoff_ms = 1000)
    /\ [][(/\ w_pc = "dispatch"
           /\ w_task \in {MalformedTask, UnknownTypeTask}
           /\ ~stop_event
           /\ w_pc' # w_pc)
            => /\ w_last'.event = "invalid"
               /\ w_last'.held = w_task
               /\ completed_tasks' = completed_tasks
               /\ requests_remaining' = requests_remaining
         ]_vars

\* C32 witness: a task with a malformed id, handed over as the follow-up of a
\* completed task, was discarded and the backoff went from 10,000 ms to 1,000 ms.
C32_Witness ==
    /\ w_last.event = "invalid"
    /\ w_last.held = MalformedTask
    /\ w_last.before = 10000
    /\ completed_tasks > 0
    /\ backoff_ms = 1000
    /\ w_pc = "loop"

\* C33: no time.sleep of a wait lasts longer than 500 ms and none is begun
\* once the stop signal is set, so a wait in progress ends after at most the one
\* sleep under way; once the stop signal is set the loop makes no new task
\* request and starts no query; and, its HTTP calls and sleeps returning, the
\* worker loop eventually exits.
C33_StopEndsWaitAndLoop ==
    /\ [](sleep_ms <= 500)
    /\ [][stop_event
            => /\ (sleep_ms = 0 => sleep_ms' = 0)
               /\ (w_pc' # w_pc => w_pc' \notin {"fetch_task", "query"})
         ]_vars
    /\ (stop_event ~> w_pc \in {"stopped", "limit"})

\* C33 witness: the stop signal is set during a sleep of a 60,000 ms wait of
\* which 500 ms have passed.
C33_Witness ==
    /\ stop_event
    /\ w_pc = "wait"
    /\ wait_ms = 60000
    /\ wait_elapsed = 500
    /\ sleep_ms = 500

\* C34: the write connections of a thread that are not closed are at most one,
\* the one in its cache; the connection a write call yields is the cached one
\* and never one that failed the health check; the connection a read-only call
\* yields was created by that very call, and a read-only connection is closed
\* once its call is over, whether the block returned or raised.
C34_ConnectionCache ==
    \A t \in DbThreads :
        /\ \A c \in ConnIds :
              (/\ db_state[c] \in {"open", "broken"}
               /\ db_origin[c].write
               /\ db_origin[c].thread = t)
                 => db_cache[t] = c
        /\ (db_pc[t] = "block" /\ db_write[t])
              => /\ db_conn[t] = db_cache[t]
                 /\ db_conn[t] \notin db_failed
                 /\ db_state[db_conn[t]] # "closed"
        /\ (db_pc[t] = "block" /\ ~db_write[t])
              => /\ db_origin[db_conn[t]].call = db_call[t]
                 /\ ~db_origin[db_conn[t]].write
        /\ \A c \in ConnIds :
              (/\ db_state[c] \in {"open", "broken"}
               /\ ~db_origin[c].write
               /\ db_origin[c].thread = t)
                 => (db_pc[t] # "idle" /\ db_call[t] = db_origin[c].call)

\* C34 witness: a thread whose cached write connection failed the health check
\* is inside a write block on the replacement, the failed one being closed.
C34_Witness ==
    \E t \in DbThreads :
        /\ db_pc[t] = "block"
        /\ db_write[t]
        /\ db_failed # {}
        /\ \A c \in db_failed : db_state[c] = "closed" /\ db_origin[c].thread = t
        /\ db_state[db_conn[t]] = "open"

\* C39: the changes of a write block are committed together when the call
\* returns and never otherwise: every committed change belongs to a call that
\* returned, a call that returned has all its changes committed, and a call
\* whose block raised or whose commit failed ends by raising, with no
\* transaction left open on its connection.
C39_WriteBlockAllOrNothing ==
    /\ [](/\ \A ch \in db_committed : db_done[ch[1]] = "returned"
          /\ \A k \in CallIds : db_done[k] = "returned" => db_wrote[k] \subseteq db_committed
          /\ \A t \in DbThreads :
                (db_pc[t] = "idle" /\ db_cache[t] # 0) => db_pending[db_cache[t]] = {})
    /\ [][\A t \in DbThreads :
            (/\ db_write[t]
             /\ db_pc'[t] = "idle"
             /\ \/ db_pc[t] = "exit_raise"
                \/ db_pc[t] = "exit_ok" /\ db_committed' = db_committed /\ db_wrote[db_call[t]] # {})
              => db_done'[db_call[t]] = "raised"
         ]_vars

\* C39 witness: a write block that made two changes raised, and a later write
\* call of the same thread on the same connection has committed its own change.
C39_Witness ==
    \E t \in DbThreads :
        /\ db_done[1] = "raised"
        /\ Cardinality(db_wrote[1]) = 2
        /\ db_done[2] = "returned"
        /\ db_wrote[2] # {}
        /\ db_committed = db_wrote[2]
        /\ db_origin[db_cache[t]].call = 1
        /\ db_call[t] = 2

\* C38: when ensure_schema_exists runs with a legacy SQLite file present and
\* no player row in the store, the store holds the legacy player rows
\* afterwards and the legacy file has been consumed.
C38_LegacyImportedIntoEmptyStore ==
    [][(/\ legacy_db # NoRow
        /\ PlayerCount(players) = 0
        /\ last'.op = "schema"
        /\ players' # players)
         => /\ \A id \in PlayerIds : legacy_db[id] # NoRow => players'[id] = legacy_db[id]
            /\ legacy_db' = NoRow
      ]_vars

\* C37: the schema initialisation runs to its end at most once per process and
\* no two threads are inside it at the same time; the flag is set only after an
\* initialisation has run to its end, so a failed one leaves it false, and a call
\* that finds it false starts the initialisation again.
C37_SchemaInitOnce ==
    /\ init_completed <= 1
    /\ \A t, u \in DbThreads :
          (t # u /\ init_pc[t] \notin {"idle", "test"}) => init_pc[u] \in {"idle", "test"}
    /\ schema_initialized => init_completed >= 1
    /\ init_started <= init_failed + 1

\* C35: every task waiting in the prefetch buffer or handed to a caller and not
\* yet submitted still has its lease in the store, and no node is named by two
\* such tasks.
C35_PrefetchedKeepsLease ==
    /\ \A i \in 1..Len(pf_queue) :
          /\ players[pf_queue[i].id] # NoRow
          /\ players[pf_queue[i].id].assigned_to # NULLTEXT
          /\ \A j \in 1..Len(pf_queue) : i # j => pf_queue[i].id # pf_queue[j].id
          /\ \A c \in Callers : pf_held[c].id # pf_queue[i].id
    /\ \A c \in Callers :
          pf_held[c] # NoNextTask
            => /\ players[pf_held[c].id] # NoRow
               /\ players[pf_held[c].id].assigned_to # NULLTEXT
               /\ \A d \in Callers : c # d => pf_held[d].id # pf_held[c].id

\* C36: once stop() has set the stop flag the refill loop eventually
\* terminates, wherever it stands; with the flag set the loop starts no
\* assign_next_task call; and a task leaves the buffer only through a get(), so
\* neither stop() nor the ending loop removes or resets the tasks still buffered.
C36_StopTerminatesLoop ==
    /\ (pool_stop_event ~> fill_pc = "done")
    /\ [][/\ pool_stop_event => ~(fill_pc # "assign" /\ fill_pc' = "assign")
          /\ Len(pool_queue') < Len(pool_queue) => get_pc' # get_pc
          /\ fill_pc = "done" => fill_pc' = "done"
         ]_vars

\* C36 witness: stop() found the refill loop blocked on its wake event with a
\* full buffer; the loop has terminated and the tasks are still in the buffer.
C36_Witness ==
    /\ fill_pc = "done"
    /\ stop_pc = "stopped"
    /\ max_size = 2
    /\ Len(pool_queue) = max_size
    /\ ~low_since_full

\* C40 as stated: within a run of failures without a retry hint, that is since
\* the growth after such a failure and as long as no task was completed, no
\* answer of no task came and no rate limit came with a hint, the backoff is not
\* below its value after the latest failure; and the growth after the wait of such
\* a failure multiplies a backoff below 86,400,000 ms by at least 1.2, up to that
\* cap, and leaves a backoff at the cap where it is.
C40_BackoffNonDecreasing ==
    /\ [](run_backoff # NULL => backoff_ms >= run_backoff)
    /\ [][(w_pc = "wait" /\ after_wait \in {"rate_limit", "network", "error"} /\ w_pc' = "loop")
            => /\ backoff_ms' >= backoff_ms
               /\ backoff_ms' * 10 >= Min(backoff_ms * 12, 864000000)
               /\ backoff_ms' <= 86400000
         ]_vars

\* C40: the same within a run of failures in which no invalid task was
\* discarded either.
C40_BackoffNonDecreasingUnlessReset ==
    /\ []((run_backoff # NULL /\ ~run_invalid) => backoff_ms >= run_backoff)
    /\ [][(w_pc = "wait" /\ after_wait \in {"rate_limit", "network", "error"} /\ w_pc' = "loop")
            => /\ backoff_ms' >= backoff_ms
               /\ backoff_ms' * 10 >= Min(backoff_ms * 12, 864000000)
               /\ backoff_ms' <= 86400000
         ]_vars

\* C40 witness: the third failure in a row is being waited for: the backoff,
\* 1,200 ms after the first failure and 1,440 ms after the second, has not been
\* lowered since.
C40_Witness ==
    /\ w_pc = "wait"
    /\ w_last.event \in {"rate_limit", "network", "error"}
    /\ w_last.hint = NULL
    /\ w_last.before = 1440
    /\ run_backoff = 1440
    /\ ~run_invalid
====
